---------------------------- MODULE Spec2Model ----------------------------
(***************************************************************************)
(* A model of the result aggregation and reporting engine of osv-scanner:  *)
(*   - pkg/models: VulnerabilityResults.Flatten, GroupInfo.IsCalled,       *)
(*     Vulnerability.FixedVersions                                         *)
(*   - internal/output/table.go: MaxSeverity, tableBuilder,                *)
(*     licenseSummaryTableBuilder                                          *)
(*   - the deps.dev client: MakeVersionRequests                            *)
(*   - cmd/osv-scanner: run                                                *)
(* Each part has its own specification (SpecFlatten, SpecIsCalled, ...);   *)
(* the variables of the parts a specification does not exercise stay at    *)
(* their idle values.                                                      *)
(***************************************************************************)
EXTENDS Integers, Sequences, FiniteSets, TLC

VARIABLES
    \* ---- Flatten ----
    vulns,        \* the receiver: vulns.Results, a sequence of PackageSource
    flatPhase,    \* "build" | "returned" | "panicked"
    flatOut,      \* the slice Flatten returned (<<>> before, and after a panic)
    \* ---- IsCalled ----
    icGroup,      \* the receiver, a GroupInfo
    icOrder,      \* the order in which the runtime ranged over the analysis map
    icPhase,      \* "ready" | "done"
    icOut,        \* the value IsCalled returned
    \* ---- MaxSeverity ----
    msGroup,      \* the argument group
    msPkg,        \* the argument pkg, a PackageVulns
    msPhase,      \* "ready" | "done"
    msOut,        \* the string MaxSeverity returned
    \* ---- FixedVersions ----
    fvAffected,   \* the receiver's v.Affected
    fvPhase,      \* "build" | "done"
    fvOut,        \* the map FixedVersions returned
    \* ---- MakeVersionRequests ----
    queries,      \* the argument: a request or nil per package
    mvPc,         \* the caller: "setup" | "loop" | "wait" | "returned"
    mvI,          \* the loop variable of "for i := range queries" (from 1)
    licenses,     \* the pre-allocated result slice, one slot per query
    wPc,          \* per worker: "idle" | "spawned" | "called" | "returning" | "done"
    wResp,        \* per worker: what GetVersion gave it
    wRet,         \* per worker: the error its function returned
    gErr,         \* the errgroup's first error
    mvRet,        \* what MakeVersionRequests returned
    slotWriters,  \* history: per slot, the workers that wrote it
    observed,     \* history: the errors the errgroup was handed, in order
    \* ---- run ----
    runPc,        \* "start" | "scan" | "scanned" | "appReturned" | "exited"
    rep,          \* the reporter r of run: nil, or its format and error flag
    scanErr,      \* the error DoScan returned
    appErr,       \* the error app.Run returned
    stdout,       \* what was written to stdout, in order
    stderr,       \* what was written to stderr, in order
    printResults, \* history: how often PrintResult was called
    exitCode,     \* the value run returned (-1 before it returns)
    \* ---- the tables (internal/output) ----
    tbResults,    \* the argument: vulnResult.Results
    tbStyling,    \* the argument addStyling
    tbPhase,      \* "build" | "done" | "panicked"
    outputTable,  \* the vulnerability table: header, rows, separators
    keysOrder,    \* the order in which maps.Keys listed the license counts
    outputLicenseTable, \* the license table: header and rows
    \* ---- PrintTableResults ----
    licenseConfig, \* the argument: vulnResult.ExperimentalAnalysisConfig.Licenses
    rendered      \* the tables written to outputWriter, in order

varsFlatten == <<vulns, flatPhase, flatOut>>

varsIsCalled == <<icGroup, icOrder, icPhase, icOut>>

varsMaxSeverity == <<msGroup, msPkg, msPhase, msOut>>

varsFixedVersions == <<fvAffected, fvPhase, fvOut>>

varsRequests ==
    <<queries, mvPc, mvI, licenses, wPc, wResp, wRet, gErr, mvRet, slotWriters,
      observed>>

varsRun == <<runPc, rep, scanErr, appErr, stdout, stderr, printResults, exitCode>>

varsTable == <<tbResults, tbStyling, tbPhase, outputTable, keysOrder, outputLicenseTable>>

varsPrint == <<licenseConfig, rendered>>

vars ==
    <<varsFlatten, varsIsCalled, varsMaxSeverity, varsFixedVersions, varsRequests, varsRun,
      varsTable, varsPrint>>

\* What each part leaves alone.
notFlatten ==
    <<varsIsCalled, varsMaxSeverity, varsFixedVersions, varsRequests, varsRun,
      varsTable, varsPrint>>

notIsCalled ==
    <<varsFlatten, varsMaxSeverity, varsFixedVersions, varsRequests, varsRun,
      varsTable, varsPrint>>

notMaxSeverity ==
    <<varsFlatten, varsIsCalled, varsFixedVersions, varsRequests, varsRun,
      varsTable, varsPrint>>

notFixedVersions ==
    <<varsFlatten, varsIsCalled, varsMaxSeverity, varsRequests, varsRun,
      varsTable, varsPrint>>

notRequests ==
    <<varsFlatten, varsIsCalled, varsMaxSeverity, varsFixedVersions, varsRun,
      varsTable, varsPrint>>

notRun ==
    <<varsFlatten, varsIsCalled, varsMaxSeverity, varsFixedVersions, varsRequests,
      varsTable, varsPrint>>

notTable ==
    <<varsFlatten, varsIsCalled, varsMaxSeverity, varsFixedVersions, varsRequests,
      varsRun, varsPrint>>

notPrint ==
    <<varsFlatten, varsIsCalled, varsMaxSeverity, varsFixedVersions, varsRequests,
      varsRun>>

---------------------------------------------------------------------------
(* Generic helpers                                                         *)

\* slices.Contains
Contains(s, x) == \E i \in 1..Len(s) : s[i] = x

\* The last element's index of a non-empty sequence is Len(s).
Last(s) == s[Len(s)]

\* The sequences over S of length at most n.
SeqsUpTo(S, n) == UNION {[1..k -> S] : k \in 0..n}

RECURSIVE SumSeq(_)
SumSeq(s) == IF s = <<>> THEN 0 ELSE Head(s) + SumSeq(Tail(s))

\* How often x occurs in the list s.
Count(s, x) == Cardinality({n \in 1..Len(s) : s[n] = x})

\* The concatenation of the sequences of a sequence.
RECURSIVE Concat(_)
Concat(ss) == IF ss = <<>> THEN <<>> ELSE Head(ss) \o Concat(Tail(ss))

---------------------------------------------------------------------------
(* The result model (pkg/models)                                           *)

\* Vulnerability IDs of the advisories the scan may report.
VulnIDs == {"A-1", "B-2"}

\* GroupInfo.IDs is kept sorted in alphanumeric order: the sorted non-empty
\* ID lists over VulnIDs.
GroupIDLists == {<<"A-1">>, <<"B-2">>, <<"A-1", "B-2">>}

\* The IDs a reachability analysis may report on, and the sorted non-empty ID
\* lists over them.
AnalysisIDs == {"A-1", "B-2", "C-3"}

AnalysisIDLists == {<<"A-1">>, <<"B-2">>, <<"C-3">>, <<"A-1", "B-2">>, <<"A-1", "C-3">>,
                    <<"B-2", "C-3">>, <<"A-1", "B-2", "C-3">>}

\* The elements of a sequence.
Range(s) == {s[i] : i \in 1..Len(s)}

\* The sequences that list every element of the finite set S exactly once.
Orders(S) == {o \in [1..Cardinality(S) -> S] : Range(o) = S}

\* A map with no entries (Go's nil or empty map).
EmptyMap == <<>>

\* At most this many elements (sources, packages, vulnerability records and
\* groups together) in a result model.
MaxItems == 8

NewSource(n) == [Source   |-> [Path |-> "/repo/" \o ToString(n), Type |-> "lockfile"],
                 Packages |-> <<>>]

NewPackage(n) == [Package         |-> [Name |-> "pkg" \o ToString(n), Version |-> "1.0.0",
                                       Ecosystem |-> "Go"],
                  Vulnerabilities |-> <<>>,
                  Groups          |-> <<>>,
                  Licenses        |-> <<>>]

NewVulnerability(id) == [ID |-> id, Severity |-> <<>>]

NewGroup(ids) == [IDs |-> ids, ExperimentalAnalysis |-> EmptyMap]

NumPackages(results) == SumSeq([i \in 1..Len(results) |-> Len(results[i].Packages)])

NumItems(results) ==
    Len(results) + NumPackages(results)
    + SumSeq([i \in 1..Len(results) |->
                SumSeq([j \in 1..Len(results[i].Packages) |->
                          Len(results[i].Packages[j].Vulnerabilities)
                          + Len(results[i].Packages[j].Groups)])])

---------------------------------------------------------------------------
(* VulnerabilityResults.Flatten                                            *)

\* GroupIndex with the last matching group instead of the first.
GroupIndexLast(groups, id) ==
    IF \E i \in 1..Len(groups) : Contains(groups[i].IDs, id)
    THEN (CHOOSE i \in 1..Len(groups) :
            /\ Contains(groups[i].IDs, id)
            /\ \A j \in (i + 1)..Len(groups) : ~Contains(groups[j].IDs, id)) - 1
    ELSE -1

\* slices.IndexFunc(pkg.Groups, func(g) { return slices.Contains(g.IDs, id) }):
\* the 0-based index of the first group whose IDs contain id, or -1.
GroupIndex(groups, id) ==
    IF \E i \in 1..Len(groups) : Contains(groups[i].IDs, id)
    THEN (CHOOSE i \in 1..Len(groups) :
            /\ Contains(groups[i].IDs, id)
            /\ \A j \in 1..(i - 1) : ~Contains(groups[j].IDs, id)) - 1
    ELSE -1

\* FlattenVulns that skips a vulnerability no group holds instead of failing.
RECURSIVE FlattenVulnsSkip(_, _, _, _)
FlattenVulnsSkip(res, pkg, k, acc) ==
    IF acc.panicked \/ k > Len(pkg.Vulnerabilities) THEN acc
    ELSE LET v        == pkg.Vulnerabilities[k]
             groupIdx == GroupIndex(pkg.Groups, v.ID)
         IN  IF groupIdx < 0 \/ groupIdx >= Len(pkg.Groups)
             THEN FlattenVulnsSkip(res, pkg, k + 1, acc)
             ELSE FlattenVulnsSkip(res, pkg, k + 1,
                    [acc EXCEPT !.results = Append(@,
                        [Source        |-> res.Source,
                         Package       |-> pkg.Package,
                         Vulnerability |-> v,
                         GroupInfo     |-> pkg.Groups[groupIdx + 1]])])

\* The innermost loop of Flatten over pkg.Vulnerabilities[k..]. acc holds the
\* results appended so far; pkg.Groups[groupIdx] with an index out of range
\* panics (Go's runtime bounds check) and ends the call.
RECURSIVE FlattenVulns(_, _, _, _)
FlattenVulns(res, pkg, k, acc) ==
    IF acc.panicked \/ k > Len(pkg.Vulnerabilities) THEN acc
    ELSE LET v        == pkg.Vulnerabilities[k]
             groupIdx == GroupIndex(pkg.Groups, v.ID)
         IN  IF groupIdx < 0 \/ groupIdx >= Len(pkg.Groups)
             THEN [acc EXCEPT !.panicked = TRUE]
             ELSE FlattenVulns(res, pkg, k + 1,
                    [acc EXCEPT !.results = Append(@,
                        [Source        |-> res.Source,
                         Package       |-> pkg.Package,
                         Vulnerability |-> v,
                         GroupInfo     |-> pkg.Groups[groupIdx + 1]])])

\* The loop over res.Packages[j..].
RECURSIVE FlattenPackages(_, _, _)
FlattenPackages(res, j, acc) ==
    IF acc.panicked \/ j > Len(res.Packages) THEN acc
    ELSE FlattenPackages(res, j + 1, FlattenVulns(res, res.Packages[j], 1, acc))

\* The loop over vulns.Results[i..].
RECURSIVE FlattenResults(_, _, _)
FlattenResults(results, i, acc) ==
    IF acc.panicked \/ i > Len(results) THEN acc
    ELSE FlattenResults(results, i + 1, FlattenPackages(results[i], 1, acc))

Flatten(results) == FlattenResults(results, 1, [results |-> <<>>, panicked |-> FALSE])

\* The upstream collaborators build the model append-only: a new source, a new
\* package of the last source, a new record or group of the last package.
AddSource ==
    /\ flatPhase = "build"
    /\ NumItems(vulns) < MaxItems
    /\ vulns' = Append(vulns, NewSource(Len(vulns) + 1))
    /\ UNCHANGED <<flatPhase, flatOut, notFlatten>>

AddPackage ==
    /\ flatPhase = "build"
    /\ NumItems(vulns) < MaxItems
    /\ vulns # <<>>
    /\ vulns' = [vulns EXCEPT ![Len(vulns)].Packages =
                    Append(@, NewPackage(NumPackages(vulns) + 1))]
    /\ UNCHANGED <<flatPhase, flatOut, notFlatten>>

AddVulnerability ==
    /\ flatPhase = "build"
    /\ NumItems(vulns) < MaxItems
    /\ vulns # <<>>
    /\ Last(vulns).Packages # <<>>
    /\ \E id \in VulnIDs :
          LET pkgs == Last(vulns).Packages
          IN  /\ \A k \in 1..Len(Last(pkgs).Vulnerabilities) :
                    Last(pkgs).Vulnerabilities[k].ID # id
              /\ vulns' = [vulns EXCEPT ![Len(vulns)].Packages[Len(pkgs)].Vulnerabilities =
                              Append(@, NewVulnerability(id))]
    /\ UNCHANGED <<flatPhase, flatOut, notFlatten>>

AddGroup ==
    /\ flatPhase = "build"
    /\ NumItems(vulns) < MaxItems
    /\ vulns # <<>>
    /\ Last(vulns).Packages # <<>>
    /\ \E ids \in GroupIDLists :
          LET pkgs == Last(vulns).Packages
          IN  vulns' = [vulns EXCEPT ![Len(vulns)].Packages[Len(pkgs)].Groups =
                           Append(@, NewGroup(ids))]
    /\ UNCHANGED <<flatPhase, flatOut, notFlatten>>

\* vulns.Flatten(): returns the rows, or panics.
FlattenCall ==
    /\ flatPhase = "build"
    /\ LET r == Flatten(vulns)
       IN  /\ flatPhase' = IF r.panicked THEN "panicked" ELSE "returned"
           /\ flatOut' = IF r.panicked THEN <<>> ELSE r.results
    /\ UNCHANGED <<vulns, notFlatten>>


FlattenIdle == vulns = <<>> /\ flatPhase = "build" /\ flatOut = <<>>

---------------------------------------------------------------------------
(* GroupInfo.IsCalled                                                      *)

\* IsCalledLoop that decides on the first entry it visits.
IsCalledLoopFirst(analysis, order) ==
    IF order = <<>> THEN FALSE ELSE analysis[Head(order)].Called

\* The loop of IsCalled over the analysis map, visiting the keys in the given
\* order (Go ranges over a map in an unspecified order).
RECURSIVE IsCalledLoop(_, _)
IsCalledLoop(analysis, order) ==
    IF order = <<>> THEN FALSE
    ELSE IF analysis[Head(order)].Called THEN TRUE
         ELSE IsCalledLoop(analysis, Tail(order))

\* groupInfo.IsCalled(), the runtime ranging over the map in the given order.
IsCalled(groupInfo, order) ==
    IF Cardinality(DOMAIN groupInfo.ExperimentalAnalysis) = 0 THEN TRUE
    ELSE IsCalledLoop(groupInfo.ExperimentalAnalysis, order)

\* The analysis maps: any subset of the IDs, each with an AnalysisInfo.
AnalysisMaps ==
    UNION {[keys -> [Called : BOOLEAN]] : keys \in SUBSET AnalysisIDs}

IsCalledCall ==
    /\ icPhase = "ready"
    /\ \E order \in Orders(DOMAIN icGroup.ExperimentalAnalysis) :
          /\ icOrder' = order
          /\ icOut' = IsCalled(icGroup, order)
    /\ icPhase' = "done"
    /\ UNCHANGED <<icGroup, notIsCalled>>

IsCalledIdle ==
    /\ icGroup = [IDs |-> <<>>, ExperimentalAnalysis |-> EmptyMap]
    /\ icOrder = <<>>
    /\ icPhase = "ready"
    /\ icOut = FALSE

---------------------------------------------------------------------------
(* MaxSeverity (internal/output/table.go)                                  *)

\* models.SeverityCVSSV2 and models.SeverityCVSSV3, and a kind the switch of
\* MaxSeverity has no case for.
SeverityCVSSV2 == "CVSS_V2"

SeverityCVSSV3 == "CVSS_V3"

SeverityOther == "CVSS_V4"

\* Vector strings: two well-formed CVSS v3 vectors (base scores 9.8 and 0.0),
\* a well-formed CVSS v2 vector (base score 7.5) and a malformed string.
V3High == "CVSS:3.1/AV:N/AC:L/PR:N/UI:N/S:U/C:H/I:H/A:H"

V3None == "CVSS:3.1/AV:N/AC:L/PR:N/UI:N/S:U/C:N/I:N/A:N"

V2Mid == "AV:N/AC:L/Au:N/C:P/I:P/A:P"

Malformed == "not-a-vector"

\* The severity entries a vulnerability record may carry.
SeverityEntries ==
    {[Type |-> SeverityCVSSV3, Score |-> V3High],
     [Type |-> SeverityCVSSV3, Score |-> V3None],
     [Type |-> SeverityCVSSV3, Score |-> Malformed],
     [Type |-> SeverityCVSSV2, Score |-> V2Mid],
     [Type |-> SeverityCVSSV2, Score |-> V3High],
     [Type |-> SeverityOther,  Score |-> V3High]}

\* Whether the decoder of the entry's kind accepts its vector.
Decodes(severity) ==
    \/ severity.Type = SeverityCVSSV3 /\ severity.Score \in {V3High, V3None}
    \/ severity.Type = SeverityCVSSV2 /\ severity.Score = V2Mid

\* The base score of a vector its decoder accepts, in tenths (the scores have
\* one decimal).
BaseScore(severity) ==
    CASE severity.Score = V3High -> 98
      [] severity.Score = V3None -> 0
      [] severity.Score = V2Mid  -> 75

\* numericSeverity, _ := NewBase().Decode(severity.Score); numericSeverity.Score():
\* the decode error is dropped, and Score() of a metric that did not decode is 0.
DecodedScore(severity) ==
    IF Decodes(severity) THEN BaseScore(severity) ELSE 0

\* math.Max
Max(a, b) == IF a >= b THEN a ELSE b

\* The loop over the severities of one vulnerability.
RECURSIVE MaxOverSeverities(_, _)
MaxOverSeverities(severities, maxSeverity) ==
    IF severities = <<>> THEN maxSeverity
    ELSE LET severity == Head(severities)
         IN  MaxOverSeverities(Tail(severities),
                IF severity.Type \in {SeverityCVSSV2, SeverityCVSSV3}
                THEN Max(maxSeverity, DecodedScore(severity))
                ELSE maxSeverity)

\* The scan of pkg.Vulnerabilities for vulnID: every record with that ID
\* overwrites severities, so the last one stays (nil when there is none).
RECURSIVE SeveritiesOf(_, _, _)
SeveritiesOf(vulnerabilities, vulnID, severities) ==
    IF vulnerabilities = <<>> THEN severities
    ELSE SeveritiesOf(Tail(vulnerabilities), vulnID,
            IF Head(vulnerabilities).ID = vulnID
            THEN Head(vulnerabilities).Severity
            ELSE severities)

\* The loop over group.IDs.
RECURSIVE MaxOverIDs(_, _, _)
MaxOverIDs(ids, pkg, maxSeverity) ==
    IF ids = <<>> THEN maxSeverity
    ELSE MaxOverIDs(Tail(ids), pkg,
            MaxOverSeverities(SeveritiesOf(pkg.Vulnerabilities, Head(ids), <<>>),
                              maxSeverity))

\* fmt.Sprintf("%v", f) of a float64 with at most one decimal: the shortest
\* decimal representation ("9.8", "7.5", "10", "0").
FormatFloat(tenths) ==
    IF tenths % 10 = 0 THEN ToString(tenths \div 10)
    ELSE ToString(tenths \div 10) \o "." \o ToString(tenths % 10)

MaxSeverity(group, pkg) ==
    LET maxSeverity == MaxOverIDs(group.IDs, pkg, 0)
    IN  IF maxSeverity = 0 THEN "" ELSE FormatFloat(maxSeverity)

\* At most this many severity entries in a vulnerability record, and records
\* in the package MaxSeverity is called with.
MaxSeverities == 2

MaxVulns == 2

\* The records of a package: their IDs differ (an advisory ID is unique).
VulnerabilityLists ==
    {l \in SeqsUpTo([ID : VulnIDs, Severity : SeqsUpTo(SeverityEntries, MaxSeverities)],
                    MaxVulns) :
        \A i, j \in 1..Len(l) : l[i].ID = l[j].ID => i = j}

MaxSeverityCall ==
    /\ msPhase = "ready"
    /\ msOut' = MaxSeverity(msGroup, msPkg)
    /\ msPhase' = "done"
    /\ UNCHANGED <<msGroup, msPkg, notMaxSeverity>>

MaxSeverityIdle ==
    /\ msGroup = NewGroup(<<>>)
    /\ msPkg = NewPackage(1)
    /\ msPhase = "ready"
    /\ msOut = ""

---------------------------------------------------------------------------
(* Vulnerability.FixedVersions                                             *)

\* An ecosystem string is kept as its colon-separated segments: "Go" is
\* <<"Go">> and "Go:gomod" is <<"Go", "gomod">>. The string contains ":" iff it
\* has more than one segment, and strings.Split(s, ":")[0] is its first.
Ecosystems == {<<"Go">>, <<"Go", "gomod">>}

\* The affected packages of an advisory, with and without a package URL.
AffectedPackages ==
    [Ecosystem : Ecosystems, Name : {"stdlib"}, Purl : {"", "pkg:golang/stdlib"}]

\* Range events: an introduced marker, or a fixed marker with its version.
Events ==
    {[Introduced |-> "0", Fixed |-> ""],
     [Introduced |-> "",  Fixed |-> "1.2.0"],
     [Introduced |-> "",  Fixed |-> "1.3.0"]}

\* At most this many elements (affected entries, ranges and events together)
\* in an advisory.
MaxAffectedItems == 6

\* output[key] = append(output[key], x): a missing key reads as a nil slice.
MapAppend(output, key, x) ==
    IF key \in DOMAIN output
    THEN [output EXCEPT ![key] = Append(@, x)]
    ELSE output @@ (key :> <<x>>)

\* BaseEcosystem that leaves a colon-qualified ecosystem as it is.
BaseEcosystemKeep(ecosystem) == ecosystem

\* if strings.Contains(eco, ":") { eco = strings.Split(eco, ":")[0] }
BaseEcosystem(ecosystem) ==
    IF Len(ecosystem) > 1 THEN <<ecosystem[1]>> ELSE ecosystem

\* FixEvent with the first append only.
FixEventOnce(st, e) ==
    IF e.Fixed # ""
    THEN [packageKey |-> [st.packageKey EXCEPT !.Ecosystem = BaseEcosystem(@)],
          output     |-> MapAppend(st.output, st.packageKey, e.Fixed)]
    ELSE st

\* The body of the loop over r.Events: st is <packageKey, output>. The key
\* keeps its truncated ecosystem for the events that follow.
FixEvent(st, e) ==
    IF e.Fixed # ""
    THEN LET first == MapAppend(st.output, st.packageKey, e.Fixed)
             key   == [st.packageKey EXCEPT !.Ecosystem = BaseEcosystem(@)]
         IN  [packageKey |-> key, output |-> MapAppend(first, key, e.Fixed)]
    ELSE st

RECURSIVE FixEvents(_, _)
FixEvents(st, events) ==
    IF events = <<>> THEN st ELSE FixEvents(FixEvent(st, Head(events)), Tail(events))

\* The loop over a.Ranges.
RECURSIVE FixRanges(_, _)
FixRanges(st, ranges) ==
    IF ranges = <<>> THEN st
    ELSE FixRanges(FixEvents(st, Head(ranges).Events), Tail(ranges))

\* EntryKey that also gives the key an empty list in the output.
EntryKeyWithEmptyList(a, output) ==
    LET key == [a.Package EXCEPT !.Purl = ""]
    IN  [packageKey |-> key,
         output     |-> IF key \in DOMAIN output THEN output ELSE output @@ (key :> <<>>)]

\* packageKey := a.Package; packageKey.Purl = ""
EntryKey(a, output) ==
    [packageKey |-> [a.Package EXCEPT !.Purl = ""], output |-> output]

\* The loop over v.Affected.
RECURSIVE FixAffected(_, _)
FixAffected(affected, output) ==
    IF affected = <<>> THEN output
    ELSE FixAffected(Tail(affected),
            FixRanges(EntryKey(Head(affected), output), Head(affected).Ranges).output)

FixedVersions(affected) == FixAffected(affected, EmptyMap)

NumAffectedItems(affected) ==
    Len(affected)
    + SumSeq([i \in 1..Len(affected) |->
                Len(affected[i].Ranges)
                + SumSeq([j \in 1..Len(affected[i].Ranges) |->
                            Len(affected[i].Ranges[j].Events)])])

\* The advisory arrives from the matching client: entry by entry, range by
\* range, event by event.
AddAffected ==
    /\ fvPhase = "build"
    /\ NumAffectedItems(fvAffected) < MaxAffectedItems
    /\ \E p \in AffectedPackages :
          fvAffected' = Append(fvAffected, [Package |-> p, Ranges |-> <<>>])
    /\ UNCHANGED <<fvPhase, fvOut, notFixedVersions>>

AddRange ==
    /\ fvPhase = "build"
    /\ NumAffectedItems(fvAffected) < MaxAffectedItems
    /\ fvAffected # <<>>
    /\ fvAffected' = [fvAffected EXCEPT ![Len(fvAffected)].Ranges =
                         Append(@, [Events |-> <<>>])]
    /\ UNCHANGED <<fvPhase, fvOut, notFixedVersions>>

AddEvent ==
    /\ fvPhase = "build"
    /\ NumAffectedItems(fvAffected) < MaxAffectedItems
    /\ fvAffected # <<>>
    /\ Last(fvAffected).Ranges # <<>>
    /\ \E e \in Events :
          fvAffected' = [fvAffected EXCEPT
                           ![Len(fvAffected)].Ranges[Len(Last(fvAffected).Ranges)].Events =
                               Append(@, e)]
    /\ UNCHANGED <<fvPhase, fvOut, notFixedVersions>>

FixedVersionsCall ==
    /\ fvPhase = "build"
    /\ fvOut' = FixedVersions(fvAffected)
    /\ fvPhase' = "done"
    /\ UNCHANGED <<fvAffected, notFixedVersions>>

FixedVersionsIdle == fvAffected = <<>> /\ fvPhase = "build" /\ fvOut = EmptyMap

---------------------------------------------------------------------------
(* MakeVersionRequests (the deps.dev client)                               *)

\* At most this many queries in a batch.
MaxQueries == 3

\* A nil query (a package outside the supported systems), and the request
\* for package n.
NilQuery == [nil |-> TRUE, name |-> ""]

Request(n) == [nil |-> FALSE, name |-> "pkg" \o ToString(n)]

\* Errors: nil, and an error with its gRPC status code and the query whose
\* worker returned it (0: none, the setup).
NoError == [code |-> "nil", query |-> 0]

Error(code, n) == [code |-> code, query |-> n]

\* What client.GetVersion may give: a response with its licenses, or an
\* error with a status code.
Responses ==
    {[ok |-> TRUE,  Licenses |-> <<>>,                    code |-> "OK"],
     [ok |-> TRUE,  Licenses |-> <<"MIT", "Apache-2.0">>, code |-> "OK"],
     [ok |-> FALSE, Licenses |-> <<>>,                    code |-> "NotFound"],
     [ok |-> FALSE, Licenses |-> <<>>,                    code |-> "Unavailable"]}

NoResponse == [ok |-> FALSE, Licenses |-> <<>>, code |-> "none"]

\* A [][]models.License value: nil, or a list of slots.
NilList == [nil |-> TRUE, list |-> <<>>]

List(l) == [nil |-> FALSE, list |-> l]

\* SlotOf with the loop variable shared by the closures instead of copied:
\* a worker then indexes with the value the loop has reached.
SlotOfLoopVar(i) == IF mvI > Len(queries) THEN Len(queries) ELSE mvI

\* The closure's own copy of the loop variable (i := i): the slot worker i
\* indexes licenses with.
SlotOf(i) == i

\* LicensesOf without the UNKNOWN placeholder for an empty response.
LicensesOfVerbatim(resp) == [j \in 1..Len(resp.Licenses) |-> resp.Licenses[j]]

\* ls of a successful response: its licenses converted one by one, or
\* ["UNKNOWN"] when it has none.
LicensesOf(resp) ==
    LET ls == [j \in 1..Len(resp.Licenses) |-> resp.Licenses[j]]
    IN  IF Len(ls) = 0 THEN <<"UNKNOWN">> ELSE ls

\* MakeVersionRequests fails before any request: no system cert pool, or the
\* dial fails.
SetupFail ==
    /\ mvPc = "setup"
    /\ \E code \in {"CertPool", "Dial"} :
          mvRet' = [licenses |-> NilList, err |-> Error(code, 0)]
    /\ mvPc' = "returned"
    /\ UNCHANGED <<queries, mvI, licenses, wPc, wResp, wRet, gErr, slotWriters, observed, notRequests>>

\* licenses := make([][]models.License, len(queries)); the loop starts.
SetupDone ==
    /\ mvPc = "setup"
    /\ licenses' = [n \in 1..Len(queries) |-> <<>>]
    /\ mvI' = 1
    /\ mvPc' = IF Len(queries) = 0 THEN "wait" ELSE "loop"
    /\ UNCHANGED <<queries, wPc, wResp, wRet, gErr, mvRet, slotWriters, observed, notRequests>>

\* LoopStep without the nil check: every query gets a worker.
LoopStepNoSkip ==
    /\ mvPc = "loop"
    /\ wPc' = [wPc EXCEPT ![mvI] = "spawned"]
    /\ mvI' = IF mvI < Len(queries) THEN mvI + 1 ELSE mvI
    /\ mvPc' = IF mvI < Len(queries) THEN "loop" ELSE "wait"
    /\ UNCHANGED <<queries, licenses, wResp, wRet, gErr, mvRet, slotWriters, observed, notRequests>>

\* One iteration of the loop: a nil query is skipped, another gets a worker
\* (g.Go). The workers started so far run meanwhile.
LoopStep ==
    /\ mvPc = "loop"
    /\ wPc' = IF queries[mvI].nil THEN wPc ELSE [wPc EXCEPT ![mvI] = "spawned"]
    /\ mvI' = IF mvI < Len(queries) THEN mvI + 1 ELSE mvI
    /\ mvPc' = IF mvI < Len(queries) THEN "loop" ELSE "wait"
    /\ UNCHANGED <<queries, licenses, wResp, wRet, gErr, mvRet, slotWriters, observed, notRequests>>

\* Worker i issues client.GetVersion(ctx, queries[i]).
WorkerCall(i) ==
    /\ wPc[i] = "spawned"
    /\ wPc' = [wPc EXCEPT ![i] = "called"]
    /\ UNCHANGED <<queries, mvPc, mvI, licenses, wResp, wRet, gErr, mvRet, slotWriters,
                   observed, notRequests>>

\* GetVersion returns to worker i, which runs to the end of its function:
\* not-found puts UNKNOWN in its slot and returns the error, another error is
\* returned as it is, a response fills the slot.
WorkerReceive(i) ==
    /\ wPc[i] = "called"
    /\ \E resp \in Responses :
          /\ wResp' = [wResp EXCEPT ![i] = resp]
          /\ IF ~resp.ok
             THEN /\ IF resp.code = "NotFound"
                     THEN /\ licenses' = [licenses EXCEPT ![SlotOf(i)] = Append(@, "UNKNOWN")]
                          /\ slotWriters' = [slotWriters EXCEPT ![SlotOf(i)] = @ \cup {i}]
                     ELSE UNCHANGED <<licenses, slotWriters>>
                  /\ wRet' = [wRet EXCEPT ![i] = Error(resp.code, i)]
             ELSE /\ licenses' = [licenses EXCEPT ![SlotOf(i)] = LicensesOf(resp)]
                  /\ slotWriters' = [slotWriters EXCEPT ![SlotOf(i)] = @ \cup {i}]
                  /\ wRet' = [wRet EXCEPT ![i] = NoError]
    /\ wPc' = [wPc EXCEPT ![i] = "returning"]
    /\ UNCHANGED <<queries, mvPc, mvI, gErr, mvRet, observed, notRequests>>

\* The errgroup's wrapper of worker i: the first non-nil error is kept
\* (errOnce), then wg.Done().
WorkerExit(i) ==
    /\ wPc[i] = "returning"
    /\ gErr' = IF wRet[i] # NoError /\ gErr = NoError THEN wRet[i] ELSE gErr
    /\ wPc' = [wPc EXCEPT ![i] = "done"]
    /\ observed' = IF wRet[i] # NoError THEN Append(observed, wRet[i]) ELSE observed
    /\ UNCHANGED <<queries, mvPc, mvI, licenses, wResp, wRet, mvRet, slotWriters, notRequests>>

\* WaitReturn handing the list to the caller together with the error.
WaitReturnKeepsList ==
    /\ mvPc = "wait"
    /\ \A i \in 1..Len(queries) : wPc[i] \in {"idle", "done"}
    /\ mvRet' = [licenses |-> List(licenses), err |-> gErr]
    /\ mvPc' = "returned"
    /\ UNCHANGED <<queries, mvI, licenses, wPc, wResp, wRet, gErr, slotWriters, observed, notRequests>>

\* WaitReturn that also returns as soon as the group holds an error, the
\* other workers still running.
WaitReturnEarly ==
    /\ mvPc = "wait"
    /\ \/ \A i \in 1..Len(queries) : wPc[i] \in {"idle", "done"}
       \/ gErr # NoError
    /\ mvRet' = IF gErr # NoError
                THEN [licenses |-> NilList, err |-> gErr]
                ELSE [licenses |-> List(licenses), err |-> NoError]
    /\ mvPc' = "returned"
    /\ UNCHANGED <<queries, mvI, licenses, wPc, wResp, wRet, gErr, slotWriters, observed, notRequests>>

\* g.Wait() returns once every started worker is done; an error drops the
\* list.
WaitReturn ==
    /\ mvPc = "wait"
    /\ \A i \in 1..Len(queries) : wPc[i] \in {"idle", "done"}
    /\ mvRet' = IF gErr # NoError
                THEN [licenses |-> NilList, err |-> gErr]
                ELSE [licenses |-> List(licenses), err |-> NoError]
    /\ mvPc' = "returned"
    /\ UNCHANGED <<queries, mvI, licenses, wPc, wResp, wRet, gErr, slotWriters, observed, notRequests>>

RequestsIdle ==
    /\ queries = <<>>
    /\ mvPc = "setup"
    /\ mvI = 1
    /\ licenses = <<>>
    /\ wPc = <<>>
    /\ wResp = <<>>
    /\ wRet = <<>>
    /\ gErr = NoError
    /\ mvRet = [licenses |-> NilList, err |-> NoError]
    /\ slotWriters = <<>>
    /\ observed = <<>>

---------------------------------------------------------------------------
(* run (cmd/osv-scanner)                                                   *)

\* At most this many messages are printed by the reporter while DoScan runs.
MaxScanMessages == 2

\* The exit codes of run.
NoPackagesExitCode == 128

GenericExitCode == 127

\* The code of a ResultError: vulnerabilities were found.
ResultErrorCode == 1

\* The output formats reporter.New knows.
Formats == {"table", "json", "markdown", "sarif"}

\* Errors: nil, a ResultError with its code, NoPackagesFoundErr, and any
\* other error with its message.
NilErr == [kind |-> "nil", code |-> 0, msg |-> ""]

ResultError(code) == [kind |-> "ResultError", code |-> code, msg |-> "result"]

NoPackagesFoundErr == [kind |-> "NoPackagesFound", code |-> 0, msg |-> "no packages found"]

OtherErr(msg) == [kind |-> "other", code |-> 0, msg |-> msg]

\* What DoScan may return.
ScanErrs ==
    {NilErr, ResultError(ResultErrorCode), NoPackagesFoundErr,
     OtherErr("could not extract")}

\* A reporter: nil, or one for a format with its hasPrintedError flag.
NilReporter == [nil |-> TRUE, format |-> "", hasPrintedError |-> FALSE]

NewReporter(format) == [nil |-> FALSE, format |-> format, hasPrintedError |-> FALSE]

\* r.PrintError: the reporter remembers that it printed an error.
PrintError(rr) == [rr EXCEPT !.hasPrintedError = TRUE]

HasPrintedError(rr) == rr.hasPrintedError

NoPackagesMessage == "No package sources found, --help for usage information."

\* --version: the cli calls VersionPrinter, which makes a table reporter and
\* prints the version through it; app.Run returns nil.
RunVersion ==
    /\ runPc = "start"
    /\ rep' = NewReporter("table")
    /\ stdout' = Append(stdout, "version")
    /\ appErr' = NilErr
    /\ runPc' = "appReturned"
    /\ UNCHANGED <<scanErr, stderr, printResults, exitCode, notRun>>

\* app.Run returns without calling the action: --help (nil), or the --format
\* flag's action rejects the format.
RunNoAction ==
    /\ runPc = "start"
    /\ \/ appErr' = NilErr /\ stdout' = Append(stdout, "help")
       \/ appErr' = OtherErr("unsupported output format") /\ UNCHANGED stdout
    /\ runPc' = "appReturned"
    /\ UNCHANGED <<rep, scanErr, stderr, printResults, exitCode, notRun>>

\* The action up to the scan: the output file cannot be created, or
\* reporter.New fails (r takes the nil it returns), or r becomes the reporter
\* of the format.
ActionStart ==
    /\ runPc = "start"
    /\ \/ /\ appErr' = OtherErr("failed to create output file")
          /\ runPc' = "appReturned"
          /\ UNCHANGED rep
       \/ /\ appErr' = OtherErr("reporter")
          /\ rep' = NilReporter
          /\ runPc' = "appReturned"
       \/ \E format \in Formats :
             /\ rep' = NewReporter(format)
             /\ runPc' = "scan"
             /\ UNCHANGED appErr
    /\ UNCHANGED <<scanErr, stdout, stderr, printResults, exitCode, notRun>>

\* DoScan reports its progress through r.
ScanPrintText ==
    /\ runPc = "scan"
    /\ Len(stdout) + Len(stderr) < MaxScanMessages
    /\ stdout' = Append(stdout, "scan text")
    /\ UNCHANGED <<runPc, rep, scanErr, appErr, stderr, printResults, exitCode, notRun>>

\* DoScan reports an error through r and goes on.
ScanPrintError ==
    /\ runPc = "scan"
    /\ Len(stdout) + Len(stderr) < MaxScanMessages
    /\ stderr' = Append(stderr, "scan error")
    /\ rep' = PrintError(rep)
    /\ UNCHANGED <<runPc, scanErr, appErr, stdout, printResults, exitCode, notRun>>

\* DoScan returns.
ScanReturn ==
    /\ runPc = "scan"
    /\ scanErr' \in ScanErrs
    /\ runPc' = "scanned"
    /\ UNCHANGED <<rep, appErr, stdout, stderr, printResults, exitCode, notRun>>

\* ActionReturn that prints the result whatever DoScan returned.
ActionReturnAlwaysPrints ==
    /\ runPc = "scanned"
    /\ printResults' = printResults + 1
    /\ \/ stdout' = Append(stdout, "result") /\ appErr' = scanErr
       \/ UNCHANGED stdout /\ appErr' = OtherErr("failed to write output")
    /\ runPc' = "appReturned"
    /\ UNCHANGED <<rep, scanErr, stderr, exitCode, notRun>>

\* The rest of the action: an error that is no ResultError is returned at
\* once; otherwise the result is printed, and the action returns the error of
\* a failed print or else what DoScan returned (nil or the ResultError).
ActionReturn ==
    /\ runPc = "scanned"
    /\ IF scanErr # NilErr /\ scanErr.kind # "ResultError"
       THEN /\ appErr' = scanErr
            /\ UNCHANGED <<stdout, printResults>>
       ELSE /\ printResults' = printResults + 1
            /\ \/ stdout' = Append(stdout, "result") /\ appErr' = scanErr
               \/ UNCHANGED stdout /\ appErr' = OtherErr("failed to write output")
    /\ runPc' = "appReturned"
    /\ UNCHANGED <<rep, scanErr, stderr, exitCode, notRun>>

\* Exit without the branch for NoPackagesFoundErr.
ExitNoSpecialCase(err, rr) ==
    LET r1 == IF err # NilErr /\ rr.nil THEN NewReporter("table") ELSE rr
    IN  IF err # NilErr /\ err.kind = "ResultError"
        THEN [code |-> err.code, rep |-> r1, printed |-> <<>>]
        ELSE LET r2 == IF err # NilErr THEN PrintError(r1) ELSE r1
             IN  [code    |-> IF ~r2.nil /\ HasPrintedError(r2)
                              THEN GenericExitCode ELSE 0,
                  rep     |-> r2,
                  printed |-> IF err # NilErr THEN <<err.msg>> ELSE <<>>]

\* Exit with the test of HasPrintedError before the test for a ResultError.
ExitGenericFirst(err, rr) ==
    LET r1 == IF err # NilErr /\ rr.nil THEN NewReporter("table") ELSE rr
    IN  IF ~r1.nil /\ HasPrintedError(r1)
        THEN [code |-> GenericExitCode, rep |-> r1, printed |-> <<>>]
        ELSE IF err # NilErr /\ err.kind = "ResultError"
        THEN [code |-> err.code, rep |-> r1, printed |-> <<>>]
        ELSE IF err # NilErr /\ err.kind = "NoPackagesFound"
        THEN [code |-> NoPackagesExitCode, rep |-> PrintError(r1),
              printed |-> <<NoPackagesMessage>>]
        ELSE LET r2 == IF err # NilErr THEN PrintError(r1) ELSE r1
             IN  [code    |-> IF ~r2.nil /\ HasPrintedError(r2)
                              THEN GenericExitCode ELSE 0,
                  rep     |-> r2,
                  printed |-> IF err # NilErr THEN <<err.msg>> ELSE <<>>]

\* Exit without the final test of HasPrintedError when app.Run returned nil.
ExitIgnoresReporter(err, rr) ==
    LET r1 == IF err # NilErr /\ rr.nil THEN NewReporter("table") ELSE rr
    IN  IF err # NilErr /\ err.kind = "ResultError"
        THEN [code |-> err.code, rep |-> r1, printed |-> <<>>]
        ELSE IF err # NilErr /\ err.kind = "NoPackagesFound"
        THEN [code |-> NoPackagesExitCode, rep |-> PrintError(r1),
              printed |-> <<NoPackagesMessage>>]
        ELSE IF err # NilErr
        THEN [code |-> GenericExitCode, rep |-> PrintError(r1), printed |-> <<err.msg>>]
        ELSE [code |-> 0, rep |-> r1, printed |-> <<>>]

\* What run does with the error err of app.Run and the reporter rr: the code
\* it returns, the reporter afterwards and what it printed to stderr. On an
\* error a nil reporter is replaced by a table reporter; a ResultError gives
\* its code, NoPackagesFoundErr its message and code, another error is
\* printed; then a reporter that has printed an error gives the generic code.
Exit(err, rr) ==
    LET r1 == IF err # NilErr /\ rr.nil THEN NewReporter("table") ELSE rr
    IN  IF err # NilErr /\ err.kind = "ResultError"
        THEN [code |-> err.code, rep |-> r1, printed |-> <<>>]
        ELSE IF err # NilErr /\ err.kind = "NoPackagesFound"
        THEN [code |-> NoPackagesExitCode, rep |-> PrintError(r1),
              printed |-> <<NoPackagesMessage>>]
        ELSE LET r2 == IF err # NilErr THEN PrintError(r1) ELSE r1
             IN  [code    |-> IF ~r2.nil /\ HasPrintedError(r2)
                              THEN GenericExitCode ELSE 0,
                  rep     |-> r2,
                  printed |-> IF err # NilErr THEN <<err.msg>> ELSE <<>>]

\* run after app.Run has returned.
RunExit ==
    /\ runPc = "appReturned"
    /\ LET e == Exit(appErr, rep)
       IN  /\ exitCode' = e.code
           /\ rep' = e.rep
           /\ stderr' = stderr \o e.printed
    /\ runPc' = "exited"
    /\ UNCHANGED <<scanErr, appErr, stdout, printResults, notRun>>

RunIdle ==
    /\ runPc = "start"
    /\ rep = NilReporter
    /\ scanErr = NilErr
    /\ appErr = NilErr
    /\ stdout = <<>>
    /\ stderr = <<>>
    /\ printResults = 0
    /\ exitCode = -1

---------------------------------------------------------------------------
(* The tables (internal/output/table.go)                                   *)

\* A package carries a license at most this many times over the model.
MaxLicenseCount == 5

\* table.NewWriter(): no header, no rows, no separators.
NewTable == [header |-> <<>>, rows |-> <<>>, separators |-> {}]

\* At most this many elements (sources, packages and groups together) in
\* the model a vulnerability table is built from.
MaxTableItems == 5

\* strings.Join
RECURSIVE Join(_, _)
Join(elems, sep) ==
    IF elems = <<>> THEN ""
    ELSE IF Len(elems) = 1 THEN elems[1]
    ELSE elems[1] \o sep \o Join(Tail(elems), sep)

\* A cleaned path: absolute or not, and its elements.
AbsPath(segs) == [abs |-> TRUE, segs |-> segs]

RelPath(segs) == [abs |-> FALSE, segs |-> segs]

\* The path as a string.
PathString(path) == (IF path.abs THEN "/" ELSE "") \o Join(path.segs, "/")

\* How many leading elements two paths share.
CommonPrefix(a, b) ==
    CHOOSE n \in 0..Len(a) :
        /\ n <= Len(b)
        /\ \A i \in 1..n : a[i] = b[i]
        /\ n = Len(a) \/ n = Len(b) \/ a[n + 1] # b[n + 1]

\* filepath.Rel(base, targ): an error when only one of the two is absolute;
\* "." for the same path; otherwise one ".." per element of base after the
\* shared prefix, then the rest of targ.
Rel(base, targ) ==
    IF base.abs # targ.abs THEN [ok |-> FALSE, path |-> RelPath(<<>>)]
    ELSE IF base.segs = targ.segs THEN [ok |-> TRUE, path |-> RelPath(<<".">>)]
    ELSE LET n == CommonPrefix(base.segs, targ.segs)
         IN  [ok   |-> TRUE,
              path |-> RelPath([i \in 1..(Len(base.segs) - n) |-> ".."]
                               \o SubSeq(targ.segs, n + 1, Len(targ.segs)))]

\* What os.Getwd may give: the working directory, or an error.
Getwds == {[ok |-> TRUE, dir |-> AbsPath(<<"repo">>)], [ok |-> FALSE, dir |-> AbsPath(<<>>)]}

\* The paths of the sources: under the working directory, outside it, and
\* relative.
SourcePaths ==
    {AbsPath(<<"repo", "go.mod">>), AbsPath(<<"other", "go.mod">>), RelPath(<<"go.mod">>)}

\* The ecosystems of the packages: a registry, and a git commit.
TableEcosystems == {"Go", "GIT"}

\* The ID lists of the groups of a table model.
TableIDLists == {<<"A-1">>, <<"A-1", "B-2">>}

\* The analysis maps of a group with the given IDs: none, every ID found
\* uncalled, the first ID found called and the others uncalled.
TableAnalyses(ids) ==
    {EmptyMap,
     [id \in Range(ids) |-> [Called |-> FALSE]],
     [id \in Range(ids) |-> [Called |-> id = ids[1]]]}

\* Package n of the given ecosystem, with a record for each advisory.
TablePackage(n, ecosystem) ==
    [NewPackage(n) EXCEPT
        !.Package.Ecosystem = ecosystem,
        !.Vulnerabilities =
            <<[ID |-> "A-1", Severity |-> <<[Type |-> SeverityCVSSV3, Score |-> V3High]>>],
              [ID |-> "B-2", Severity |-> <<[Type |-> SeverityCVSSV2, Score |-> V2Mid]>>]>>]

\* The groups of the model as (source, package, group) indices, in the order
\* of the three nested loops.
GroupRefs(results) ==
    Concat([i \in 1..Len(results) |->
              Concat([j \in 1..Len(results[i].Packages) |->
                        [k \in 1..Len(results[i].Packages[j].Groups) |-> <<i, j, k>>]])])

GroupAt(results, ref) == results[ref[1]].Packages[ref[2]].Groups[ref[3]]

TableItems(results) == Len(results) + NumPackages(results) + Len(GroupRefs(results))

\* osv.BaseVulnerabilityURL
BaseVulnerabilityURL == "https://osv.dev/"

\* The link of an ID, in bold when the table is styled.
Link(vuln, addStyling) ==
    IF addStyling THEN BaseVulnerabilityURL \o "ESC[1m" \o vuln \o "ESC[0m"
    ELSE BaseVulnerabilityURL \o vuln

\* The tbInnerResponse of the group at ref: the links of its IDs, its
\* severity, the package (a git commit shows its version twice and merges),
\* and the source path, made relative to the working directory when
\* filepath.Rel can do it. origin is history: the group the row was made from.
OutputRow(results, ref, workingDir, addStyling) ==
    LET sourceRes == results[ref[1]]
        pkg       == sourceRes.Packages[ref[2]]
        group     == pkg.Groups[ref[3]]
        rel       == Rel(workingDir, sourceRes.Source.Path)
        source    == IF rel.ok THEN [sourceRes.Source EXCEPT !.Path = rel.path]
                     ELSE sourceRes.Source
        links     == [n \in 1..Len(group.IDs) |-> Link(group.IDs[n], addStyling)]
        git       == pkg.Package.Ecosystem = "GIT"
    IN  [row         |-> <<Join(links, "\n"), MaxSeverity(group, pkg)>>
                         \o (IF git
                             THEN <<"GIT", pkg.Package.Version, pkg.Package.Version>>
                             ELSE <<pkg.Package.Ecosystem, pkg.Package.Name,
                                    pkg.Package.Version>>)
                         \o <<PathString(source.Path)>>,
         shouldMerge |-> git,
         origin      |-> ref]

\* What group.IsCalled() may return for a group, over the orders in which
\* the runtime may range over its analysis map.
IsCalledOutcomes(group) ==
    {IsCalled(group, o) : o \in Orders(DOMAIN group.ExperimentalAnalysis)}

\* The outcomes of the calls of IsCalled of one pass, one per group.
IsCalledChoices(results) ==
    {c \in [Range(GroupRefs(results)) -> BOOLEAN] :
        \A ref \in Range(GroupRefs(results)) :
            c[ref] \in IsCalledOutcomes(GroupAt(results, ref))}

\* TableBuilderInner without the test of IsCalled: every group gives a row.
TableBuilderInnerNoFilter(results, workingDir, addStyling, calledVulns, isCalled) ==
    LET refs == GroupRefs(results)
    IN  [n \in 1..Len(refs) |-> OutputRow(results, refs[n], workingDir, addStyling)]

\* TableBuilderInner with the rows appended in the reverse order.
TableBuilderInnerReversed(results, workingDir, addStyling, calledVulns, isCalled) ==
    LET refs == SelectSeq(GroupRefs(results), LAMBDA ref : isCalled[ref] = calledVulns)
    IN  [n \in 1..Len(refs) |->
            OutputRow(results, refs[Len(refs) + 1 - n], workingDir, addStyling)]

\* tableBuilderInner: one row for every group whose IsCalled() equals
\* calledVulns, by source, package and group.
TableBuilderInner(results, workingDir, addStyling, calledVulns, isCalled) ==
    LET refs == SelectSeq(GroupRefs(results), LAMBDA ref : isCalled[ref] = calledVulns)
    IN  [n \in 1..Len(refs) |-> OutputRow(results, refs[n], workingDir, addStyling)]

\* The row between the called and the uncalled vulnerabilities.
Divider == [row |-> <<"Uncalled vulnerabilities">>, shouldMerge |-> FALSE,
            origin |-> <<0, 0, 0>>]

AppendRows(table, rows) == [table EXCEPT !.rows = @ \o rows]

\* table.AppendSeparator: a separator after the last row, if there is one.
AppendSeparator(table) ==
    IF table.rows = <<>> THEN table
    ELSE [table EXCEPT !.separators = @ \cup {Len(table.rows)}]

\* tableBuilder: the header, the rows of the called groups and, when there
\* are rows of uncalled groups, the divider between separators and those
\* rows.
TableBuilder(table, results, addStyling, workingDir, isCalled1, isCalled2) ==
    LET rows         == TableBuilderInner(results, workingDir, addStyling, TRUE, isCalled1)
        withRows     == AppendRows([table EXCEPT !.header =
                            <<"OSV URL", "CVSS", "Ecosystem", "Package", "Version", "Source">>],
                            rows)
        uncalledRows == TableBuilderInner(results, workingDir, addStyling, FALSE, isCalled2)
    IN  IF Len(uncalledRows) = 0 THEN withRows
        ELSE AppendRows(
                 AppendSeparator(AppendRows(AppendSeparator(withRows), <<Divider>>)),
                 uncalledRows)

TableAddSource ==
    /\ tbPhase = "build"
    /\ TableItems(tbResults) < MaxTableItems
    /\ \E path \in SourcePaths :
          tbResults' = Append(tbResults, [Source   |-> [Path |-> path, Type |-> "lockfile"],
                                          Packages |-> <<>>])
    /\ UNCHANGED <<tbStyling, tbPhase, outputTable, keysOrder, outputLicenseTable, notTable>>

TableAddPackage ==
    /\ tbPhase = "build"
    /\ TableItems(tbResults) < MaxTableItems
    /\ tbResults # <<>>
    /\ \E ecosystem \in TableEcosystems :
          tbResults' = [tbResults EXCEPT ![Len(tbResults)].Packages =
                           Append(@, TablePackage(NumPackages(tbResults) + 1, ecosystem))]
    /\ UNCHANGED <<tbStyling, tbPhase, outputTable, keysOrder, outputLicenseTable, notTable>>

TableAddGroup ==
    /\ tbPhase = "build"
    /\ TableItems(tbResults) < MaxTableItems
    /\ tbResults # <<>>
    /\ Last(tbResults).Packages # <<>>
    /\ \E ids \in TableIDLists : \E analysis \in TableAnalyses(ids) :
          LET pkgs == Last(tbResults).Packages
          IN  tbResults' = [tbResults EXCEPT ![Len(tbResults)].Packages[Len(pkgs)].Groups =
                               Append(@, [IDs |-> ids, ExperimentalAnalysis |-> analysis])]
    /\ UNCHANGED <<tbStyling, tbPhase, outputTable, keysOrder, outputLicenseTable, notTable>>

\* tableBuilder(outputTable, vulnResult, addStyling): it panics when os.Getwd
\* fails, and returns the table otherwise.
TableBuilderCall ==
    /\ tbPhase = "build"
    /\ \E wd \in Getwds :
          IF ~wd.ok
          THEN /\ tbPhase' = "panicked"
               /\ UNCHANGED <<tbStyling, outputTable>>
          ELSE /\ tbPhase' = "done"
               /\ \E addStyling \in BOOLEAN :
                     /\ tbStyling' = addStyling
                     /\ \E isCalled1, isCalled2 \in IsCalledChoices(tbResults) :
                           outputTable' = TableBuilder(outputTable, tbResults, addStyling,
                                                       wd.dir, isCalled1, isCalled2)
    /\ UNCHANGED <<tbResults, keysOrder, outputLicenseTable, notTable>>

\* The licenses of the packages, listed in the order of Go's comparison of
\* strings (byte by byte).
LicenseNames == <<"Apache-2.0", "MIT", "UNKNOWN", "Zlib">>

\* a < b on these strings.
StringLess(a, b) ==
    (CHOOSE i \in 1..Len(LicenseNames) : LicenseNames[i] = a)
        < (CHOOSE i \in 1..Len(LicenseNames) : LicenseNames[i] = b)

\* counts of licenseSummaryTableBuilder: for every license of some package,
\* how many times packages carry it.
LicenseCounts(results) ==
    LET all == Concat([i \in 1..Len(results) |->
                         Concat([j \in 1..Len(results[i].Packages) |->
                                   results[i].Packages[j].Licenses])])
    IN  [l \in Range(all) |-> Count(all, l)]

\* Less without the two tests for UNKNOWN.
LessByCount(counts, a, b) ==
    IF counts[a] = counts[b] THEN StringLess(a, b) ELSE counts[a] > counts[b]

\* The less function given to sort.Slice, for the licenses a (at i) and b
\* (at j).
Less(counts, a, b) ==
    IF a = "UNKNOWN" THEN FALSE
    ELSE IF b = "UNKNOWN" THEN TRUE
    ELSE IF counts[a] = counts[b] THEN StringLess(a, b)
    ELSE counts[a] > counts[b]

\* One round of the insertion sort sort.Slice runs on a short slice: x moves
\* left while it is less than its left neighbour.
RECURSIVE Insert(_, _, _)
Insert(sorted, x, counts) ==
    IF sorted = <<>> THEN <<x>>
    ELSE IF Less(counts, x, Last(sorted))
         THEN Append(Insert(SubSeq(sorted, 1, Len(sorted) - 1), x, counts), Last(sorted))
         ELSE Append(sorted, x)

\* sort.Slice(licenses, less).
RECURSIVE SortSlice(_, _)
SortSlice(keys, counts) ==
    IF keys = <<>> THEN <<>>
    ELSE Insert(SortSlice(SubSeq(keys, 1, Len(keys) - 1), counts), Last(keys), counts)

\* licenseSummaryTableBuilder, maps.Keys listing the counted licenses in the
\* given order: no header and no row when nothing was counted, otherwise the
\* header and one row per license, sorted.
LicenseSummaryTableBuilder(table, results, order) ==
    LET counts   == LicenseCounts(results)
        sorted == SortSlice(order, counts)
    IN  IF DOMAIN counts = {} THEN table
        ELSE [table EXCEPT
                !.header = <<"License", "No. of package versions">>,
                !.rows   = @ \o [i \in 1..Len(sorted) |->
                                   <<sorted[i], counts[sorted[i]]>>]]

\* The model with one source whose packages carry license l counts[l] times
\* in all: package k carries the licenses counted k times or more.
ResultsWithCounts(counts) ==
    LET n == CHOOSE m \in 0..MaxLicenseCount :
                 /\ \A l \in DOMAIN counts : counts[l] <= m
                 /\ m > 0 => \E l \in DOMAIN counts : counts[l] = m
    IN  <<[NewSource(1) EXCEPT !.Packages =
              [k \in 1..n |->
                  [NewPackage(k) EXCEPT !.Licenses =
                      SelectSeq(LicenseNames, LAMBDA l : counts[l] >= k)]]]>>

LicenseSummaryCall ==
    /\ tbPhase = "build"
    /\ \E order \in Orders(DOMAIN LicenseCounts(tbResults)) :
          /\ keysOrder' = order
          /\ outputLicenseTable' =
                LicenseSummaryTableBuilder(outputLicenseTable, tbResults, order)
    /\ tbPhase' = "done"
    /\ UNCHANGED <<tbResults, tbStyling, outputTable, notTable>>

TableIdle ==
    /\ tbResults = <<>>
    /\ tbStyling = FALSE
    /\ tbPhase = "build"
    /\ outputTable = NewTable
    /\ keysOrder = <<>>
    /\ outputLicenseTable = NewTable

---------------------------------------------------------------------------
(* PrintTableResults (internal/output/table.go)                            *)

\* At most this many elements (sources, packages and groups together) in
\* the model PrintTableResults is given.
MaxPrintItems == 4

\* The license configurations of a result: checking disabled, enabled
\* without an allow-list, enabled with the allow-list MIT.
LicenseConfigs ==
    {[Enabled |-> FALSE, Allowlist |-> <<>>],
     [Enabled |-> TRUE,  Allowlist |-> <<>>],
     [Enabled |-> TRUE,  Allowlist |-> <<"MIT">>]}

\* The violations the policy checker attaches to a package: with an
\* allow-list, the resolved licenses that are not on it.
LicenseViolations(config, resolved) ==
    IF config.Enabled /\ config.Allowlist # <<>>
    THEN SelectSeq(resolved, LAMBDA l : ~Contains(config.Allowlist, l))
    ELSE <<>>

\* The resolved licenses of a package: none, one, two.
ResolvedLicenses == {<<>>, <<"MIT">>, <<"MIT", "Zlib">>}

\* Package n with its resolved licenses and, under the given configuration,
\* its license violations.
PrintPackage(n, resolved, config) ==
    [Package           |-> TablePackage(n, "Go").Package,
     Vulnerabilities   |-> TablePackage(n, "Go").Vulnerabilities,
     Groups            |-> <<>>,
     Licenses          |-> resolved,
     LicenseViolations |-> LicenseViolations(config, resolved)]

\* The paths of the sources: under the working directory, and relative.
PrintSourcePaths == {AbsPath(<<"repo", "go.mod">>), RelPath(<<"go.mod">>)}

\* The widths of the output: not a terminal, a terminal.
TerminalWidths == {0, 80}

\* The packages of the model as (source, package) indices, in the order of
\* the two nested loops.
PackageRefs(results) ==
    Concat([i \in 1..Len(results) |->
              [j \in 1..Len(results[i].Packages) |-> <<i, j>>]])

\* The assignment of the simplified path with the loop variable taken as a
\* reference into vulnResult.Results.
SimplifyPathInPlace(results, i, workingDir) ==
    LET rel == Rel(workingDir, results[i].Source.Path)
    IN  IF rel.ok THEN [results EXCEPT ![i].Source.Path = rel.path] ELSE results

\* What the body of the package loop of tableBuilderInner does to the model
\* for a package of source i: sourceRes is the copy the range statement
\* made and source a copy of its Source, so the assignment of the
\* simplified path stays in the copy.
SimplifyPath(results, i, workingDir) == results

\* The model after one pass of tableBuilderInner over the given packages.
RECURSIVE SimplifyPaths(_, _, _)
SimplifyPaths(results, refs, workingDir) ==
    IF refs = <<>> THEN results
    ELSE SimplifyPaths(SimplifyPath(results, Head(refs)[1], workingDir), Tail(refs),
                       workingDir)

\* The model after the two passes of tableBuilder.
ResultsAfterTableBuilder(results, workingDir) ==
    SimplifyPaths(SimplifyPaths(results, PackageRefs(results), workingDir),
                  PackageRefs(results), workingDir)

\* LicenseViolationsTableBuilder without the test for violations: a row for
\* every package.
LicenseViolationsTableBuilderNoSkip(table, results) ==
    LET refs == PackageRefs(results)
    IN  [table EXCEPT
            !.header = <<"License Violation", "Ecosystem", "Package", "Version", "Source">>,
            !.rows   = @ \o [n \in 1..Len(refs) |->
                               LET pkgSource == results[refs[n][1]]
                                   pkg       == pkgSource.Packages[refs[n][2]]
                               IN  <<Join(pkg.LicenseViolations, ", "),
                                     pkg.Package.Ecosystem, pkg.Package.Name,
                                     pkg.Package.Version,
                                     PathString(pkgSource.Source.Path)>>]]

\* licenseViolationsTableBuilder: the header, and one row for every package
\* with a violation.
LicenseViolationsTableBuilder(table, results) ==
    LET refs == SelectSeq(PackageRefs(results),
                    LAMBDA ref :
                        Len(results[ref[1]].Packages[ref[2]].LicenseViolations) # 0)
    IN  [table EXCEPT
            !.header = <<"License Violation", "Ecosystem", "Package", "Version", "Source">>,
            !.rows   = @ \o [n \in 1..Len(refs) |->
                               LET pkgSource == results[refs[n][1]]
                                   pkg       == pkgSource.Packages[refs[n][2]]
                               IN  <<Join(pkg.LicenseViolations, ", "),
                                     pkg.Package.Ecosystem, pkg.Package.Name,
                                     pkg.Package.Version,
                                     PathString(pkgSource.Source.Path)>>]]

\* licenseTableBuilder: nothing when license checking is off, the counts
\* without an allow-list, the violations with one.
LicenseTableBuilder(table, results, config, order) ==
    IF ~config.Enabled THEN table
    ELSE IF Len(config.Allowlist) = 0
         THEN LicenseSummaryTableBuilder(table, results, order)
         ELSE LicenseViolationsTableBuilder(table, results)

\* The orders in which maps.Keys may list the counts, when
\* licenseSummaryTableBuilder gets to call it.
KeysOrders(results, config) ==
    IF config.Enabled /\ Len(config.Allowlist) = 0
    THEN Orders(DOMAIN LicenseCounts(results))
    ELSE {<<>>}

\* table.Length(): the number of rows; the header is not one.
Length(table) == Len(table.rows)

PrintItems(results) == Len(results) + NumPackages(results) + Len(GroupRefs(results))

PrintAddSource ==
    /\ tbPhase = "build"
    /\ PrintItems(tbResults) < MaxPrintItems
    /\ \E path \in PrintSourcePaths :
          tbResults' = Append(tbResults, [Source   |-> [Path |-> path, Type |-> "lockfile"],
                                          Packages |-> <<>>])
    /\ UNCHANGED <<tbStyling, tbPhase, outputTable, keysOrder, outputLicenseTable,
                   varsPrint, notPrint>>

PrintAddPackage ==
    /\ tbPhase = "build"
    /\ PrintItems(tbResults) < MaxPrintItems
    /\ tbResults # <<>>
    /\ \E resolved \in ResolvedLicenses :
          tbResults' = [tbResults EXCEPT ![Len(tbResults)].Packages =
                           Append(@, PrintPackage(NumPackages(tbResults) + 1, resolved,
                                                  licenseConfig))]
    /\ UNCHANGED <<tbStyling, tbPhase, outputTable, keysOrder, outputLicenseTable,
                   varsPrint, notPrint>>

PrintAddGroup ==
    /\ tbPhase = "build"
    /\ PrintItems(tbResults) < MaxPrintItems
    /\ tbResults # <<>>
    /\ Last(tbResults).Packages # <<>>
    /\ \E analysis \in {EmptyMap, [id \in {"A-1"} |-> [Called |-> FALSE]]} :
          LET pkgs == Last(tbResults).Packages
          IN  tbResults' = [tbResults EXCEPT ![Len(tbResults)].Packages[Len(pkgs)].Groups =
                               Append(@, [IDs |-> <<"A-1">>,
                                          ExperimentalAnalysis |-> analysis])]
    /\ UNCHANGED <<tbStyling, tbPhase, outputTable, keysOrder, outputLicenseTable,
                   varsPrint, notPrint>>

\* PrintTableResults(vulnResult, outputWriter, terminalWidth): it builds the
\* vulnerability table and renders it when it has rows, then the same with
\* the license table. It panics when os.Getwd fails.
PrintTableResults ==
    /\ tbPhase = "build"
    /\ \E wd \in Getwds :
          IF ~wd.ok
          THEN /\ tbPhase' = "panicked"
               /\ UNCHANGED <<tbResults, tbStyling, outputTable, keysOrder,
                              outputLicenseTable, rendered>>
          ELSE \E terminalWidth \in TerminalWidths :
               \E isCalled1, isCalled2 \in IsCalledChoices(tbResults) :
                  LET addStyling == terminalWidth > 0
                      vulnTable  == TableBuilder(NewTable, tbResults, addStyling, wd.dir,
                                                 isCalled1, isCalled2)
                      after      == ResultsAfterTableBuilder(tbResults, wd.dir)
                      first      == IF Length(vulnTable) # 0
                                    THEN Append(rendered, vulnTable)
                                    ELSE rendered
                  IN  \E order \in KeysOrders(after, licenseConfig) :
                         LET licenseTable ==
                                 LicenseTableBuilder(NewTable, after, licenseConfig, order)
                         IN  /\ tbPhase' = "done"
                             /\ tbStyling' = addStyling
                             /\ tbResults' = after
                             /\ outputTable' = vulnTable
                             /\ keysOrder' = order
                             /\ outputLicenseTable' = licenseTable
                             /\ rendered' = IF Length(licenseTable) = 0 THEN first
                                            ELSE Append(first, licenseTable)
    /\ UNCHANGED <<licenseConfig, notPrint>>

PrintIdle ==
    /\ licenseConfig = [Enabled |-> FALSE, Allowlist |-> <<>>]
    /\ rendered = <<>>

---------------------------------------------------------------------------
(* The specifications                                                      *)

InitFlatten ==
    /\ FlattenIdle /\ IsCalledIdle /\ MaxSeverityIdle /\ FixedVersionsIdle /\ RequestsIdle
    /\ RunIdle /\ TableIdle /\ PrintIdle

NextFlatten ==
    \/ AddSource
    \/ AddPackage
    \/ AddVulnerability
    \/ AddGroup
    \/ FlattenCall

SpecFlatten == InitFlatten /\ [][NextFlatten]_vars

InitIsCalled ==
    /\ icGroup \in {g \in [IDs : AnalysisIDLists, ExperimentalAnalysis : AnalysisMaps] :
                        DOMAIN g.ExperimentalAnalysis \subseteq Range(g.IDs)}
    /\ icOrder = <<>>
    /\ icPhase = "ready"
    /\ icOut = FALSE
    /\ FlattenIdle /\ MaxSeverityIdle /\ FixedVersionsIdle /\ RequestsIdle
    /\ RunIdle /\ TableIdle /\ PrintIdle

NextIsCalled == IsCalledCall

SpecIsCalled == InitIsCalled /\ [][NextIsCalled]_vars

InitMaxSeverity ==
    /\ msGroup \in {NewGroup(ids) : ids \in GroupIDLists}
    /\ msPkg \in {[NewPackage(1) EXCEPT !.Vulnerabilities = l] : l \in VulnerabilityLists}
    /\ msPhase = "ready"
    /\ msOut = ""
    /\ FlattenIdle /\ IsCalledIdle /\ FixedVersionsIdle /\ RequestsIdle
    /\ RunIdle /\ TableIdle /\ PrintIdle

NextMaxSeverity == MaxSeverityCall

SpecMaxSeverity == InitMaxSeverity /\ [][NextMaxSeverity]_vars

InitFixedVersions ==
    /\ FixedVersionsIdle /\ FlattenIdle /\ IsCalledIdle /\ MaxSeverityIdle /\ RequestsIdle
    /\ RunIdle /\ TableIdle /\ PrintIdle

NextFixedVersions ==
    \/ AddAffected
    \/ AddRange
    \/ AddEvent
    \/ FixedVersionsCall

SpecFixedVersions == InitFixedVersions /\ [][NextFixedVersions]_vars

\* The batches: up to MaxQueries queries, query n nil or the request for
\* package n.
QueryLists ==
    {q \in SeqsUpTo({NilQuery} \cup {Request(n) : n \in 1..MaxQueries}, MaxQueries) :
        \A n \in 1..Len(q) : q[n] \in {NilQuery, Request(n)}}

InitRequests ==
    /\ queries \in QueryLists
    /\ mvPc = "setup"
    /\ mvI = 1
    /\ licenses = <<>>
    /\ wPc = [n \in 1..Len(queries) |-> "idle"]
    /\ wResp = [n \in 1..Len(queries) |-> NoResponse]
    /\ wRet = [n \in 1..Len(queries) |-> NoError]
    /\ gErr = NoError
    /\ mvRet = [licenses |-> NilList, err |-> NoError]
    /\ slotWriters = [n \in 1..Len(queries) |-> {}]
    /\ observed = <<>>
    /\ FlattenIdle /\ IsCalledIdle /\ MaxSeverityIdle /\ FixedVersionsIdle
    /\ RunIdle /\ TableIdle /\ PrintIdle

NextRequests ==
    \/ SetupFail
    \/ SetupDone
    \/ LoopStep
    \/ \E i \in 1..Len(queries) : WorkerCall(i)
    \/ \E i \in 1..Len(queries) : WorkerReceive(i)
    \/ \E i \in 1..Len(queries) : WorkerExit(i)
    \/ WaitReturn

SpecRequests == InitRequests /\ [][NextRequests]_vars

\* The steps MakeVersionRequests and its workers take by themselves. The
\* response to a request (WorkerReceive) is not among them: it comes from the
\* service, and the context of the requests (context.TODO()) has no deadline
\* that would end the wait.
ProgramStep ==
    \/ SetupFail
    \/ SetupDone
    \/ LoopStep
    \/ \E i \in 1..Len(queries) : WorkerCall(i)
    \/ \E i \in 1..Len(queries) : WorkerExit(i)
    \/ WaitReturn

\* MakeVersionRequests with a scheduler that lets every goroutine run.
SpecRequestsFair == InitRequests /\ [][NextRequests]_vars /\ WF_vars(ProgramStep)

\* The same with a service that answers every request.
SpecRequestsAnswered ==
    SpecRequestsFair /\ WF_vars(\E i \in 1..Len(queries) : WorkerReceive(i))

InitRun ==
    /\ RunIdle /\ TableIdle /\ PrintIdle
    /\ FlattenIdle /\ IsCalledIdle /\ MaxSeverityIdle /\ FixedVersionsIdle /\ RequestsIdle

NextRun ==
    \/ RunVersion
    \/ RunNoAction
    \/ ActionStart
    \/ ScanPrintText
    \/ ScanPrintError
    \/ ScanReturn
    \/ ActionReturn
    \/ RunExit

SpecRun == InitRun /\ [][NextRun]_vars

InitTable ==
    /\ TableIdle
    /\ FlattenIdle /\ IsCalledIdle /\ MaxSeverityIdle /\ FixedVersionsIdle /\ RequestsIdle
    /\ RunIdle /\ PrintIdle

NextTable ==
    \/ TableAddSource
    \/ TableAddPackage
    \/ TableAddGroup
    \/ TableBuilderCall

SpecTable == InitTable /\ [][NextTable]_vars

InitLicenseSummary ==
    /\ tbResults \in {ResultsWithCounts(c) :
                        c \in [Range(LicenseNames) -> 0..MaxLicenseCount]}
    /\ tbStyling = FALSE
    /\ tbPhase = "build"
    /\ outputTable = NewTable
    /\ keysOrder = <<>>
    /\ outputLicenseTable = NewTable
    /\ FlattenIdle /\ IsCalledIdle /\ MaxSeverityIdle /\ FixedVersionsIdle /\ RequestsIdle
    /\ RunIdle /\ PrintIdle

NextLicenseSummary == LicenseSummaryCall

SpecLicenseSummary == InitLicenseSummary /\ [][NextLicenseSummary]_vars

InitPrintTable ==
    /\ TableIdle
    /\ licenseConfig \in LicenseConfigs
    /\ rendered = <<>>
    /\ FlattenIdle /\ IsCalledIdle /\ MaxSeverityIdle /\ FixedVersionsIdle /\ RequestsIdle
    /\ RunIdle

NextPrintTable ==
    \/ PrintAddSource
    \/ PrintAddPackage
    \/ PrintAddGroup
    \/ PrintTableResults

SpecPrintTable == InitPrintTable /\ [][NextPrintTable]_vars

---------------------------------------------------------------------------
(* Properties of Flatten                                                   *)

\* Every vulnerability ID of a package occurs in some group of that package.
WellFormed(results) ==
    \A i \in 1..Len(results) : \A j \in 1..Len(results[i].Packages) :
        LET pkg == results[i].Packages[j]
        IN  \A k \in 1..Len(pkg.Vulnerabilities) :
                \E g \in 1..Len(pkg.Groups) :
                    Contains(pkg.Groups[g].IDs, pkg.Vulnerabilities[k].ID)

\* The (source, package, vulnerability) index triples of a model.
Triples(results) ==
    {t \in (1..Len(results)) \X (1..MaxItems) \X (1..MaxItems) :
        /\ t[2] <= Len(results[t[1]].Packages)
        /\ t[3] <= Len(results[t[1]].Packages[t[2]].Vulnerabilities)}

\* u comes no later than t in source, then package, then vulnerability order.
NotAfter(u, t) ==
    \/ u[1] < t[1]
    \/ u[1] = t[1] /\ u[2] < t[2]
    \/ u[1] = t[1] /\ u[2] = t[2] /\ u[3] <= t[3]

Rank(results, t) == Cardinality({u \in Triples(results) : NotAfter(u, t)})

TotalVulnerabilities(results) ==
    SumSeq([i \in 1..Len(results) |->
              SumSeq([j \in 1..Len(results[i].Packages) |->
                        Len(results[i].Packages[j].Vulnerabilities)])])

\* row is the row of triple t: its source, package and record, with the first
\* group of the package that holds the record's ID.
IsRowOf(results, row, t) ==
    LET res == results[t[1]]
        pkg == res.Packages[t[2]]
        v   == pkg.Vulnerabilities[t[3]]
    IN  /\ row.Source = res.Source
        /\ row.Package = pkg.Package
        /\ row.Vulnerability = v
        /\ \E g \in 1..Len(pkg.Groups) :
              /\ row.GroupInfo = pkg.Groups[g]
              /\ Contains(pkg.Groups[g].IDs, v.ID)
              /\ \A h \in 1..(g - 1) : ~Contains(pkg.Groups[h].IDs, v.ID)

\* C1: on a well-formed model Flatten returns exactly one row per (source,
\* package, vulnerability) triple, in source, then package, then vulnerability
\* order, each with the first group of the package holding the ID; the number
\* of rows is the number of vulnerability records.
C1_FlattenRows ==
    (flatPhase # "build" /\ WellFormed(vulns)) =>
        /\ flatPhase = "returned"
        /\ Len(flatOut) = TotalVulnerabilities(vulns)
        /\ Len(flatOut) = Cardinality(Triples(vulns))
        /\ \A t \in Triples(vulns) : IsRowOf(vulns, flatOut[Rank(vulns, t)], t)

\* Flatten returned two or more rows, one of them for a record that two
\* different groups of its package hold.
C1_Witness ==
    /\ flatPhase = "returned"
    /\ Len(flatOut) >= 2
    /\ \E i \in 1..Len(vulns) : \E j \in 1..Len(vulns[i].Packages) :
          LET pkg == vulns[i].Packages[j]
          IN  \E k \in 1..Len(pkg.Vulnerabilities) : \E g, h \in 1..Len(pkg.Groups) :
                /\ g < h
                /\ pkg.Groups[g] # pkg.Groups[h]
                /\ Contains(pkg.Groups[g].IDs, pkg.Vulnerabilities[k].ID)
                /\ Contains(pkg.Groups[h].IDs, pkg.Vulnerabilities[k].ID)

\* C2: when some package holds a vulnerability whose ID no group of the
\* package contains, Flatten panics and returns no rows; the rows it does
\* return never leave a record out and never carry a group without the
\* record's ID.
C2_FlattenFailsFatally ==
    flatPhase # "build" =>
        /\ ~WellFormed(vulns) => (flatPhase = "panicked" /\ flatOut = <<>>)
        /\ flatPhase = "returned" =>
              /\ Len(flatOut) = TotalVulnerabilities(vulns)
              /\ \A n \in 1..Len(flatOut) :
                    Contains(flatOut[n].GroupInfo.IDs, flatOut[n].Vulnerability.ID)

\* Flatten panicked on a package whose first record has a group and whose
\* second record has none, although the package has groups.
C2_Witness ==
    /\ flatPhase = "panicked"
    /\ \E i \in 1..Len(vulns) : \E j \in 1..Len(vulns[i].Packages) :
          LET pkg == vulns[i].Packages[j]
          IN  /\ Len(pkg.Vulnerabilities) = 2
              /\ GroupIndex(pkg.Groups, pkg.Vulnerabilities[1].ID) >= 0
              /\ \A g \in 1..Len(pkg.Groups) :
                    ~Contains(pkg.Groups[g].IDs, pkg.Vulnerabilities[2].ID)

---------------------------------------------------------------------------
(* Properties of IsCalled                                                  *)

\* C3: IsCalled returns true if the analysis map is empty or some entry has
\* Called = true, and false exactly when the map is non-empty and every entry
\* has Called = false, whatever the order the map is ranged over.
C3_IsCalled ==
    icPhase = "done" =>
        LET analysis == icGroup.ExperimentalAnalysis
        IN  /\ (DOMAIN analysis = {} \/ \E id \in DOMAIN analysis : analysis[id].Called)
                  => icOut = TRUE
            /\ (icOut = FALSE) <=>
                  (DOMAIN analysis # {} /\ \A id \in DOMAIN analysis : ~analysis[id].Called)

\* IsCalled returned true although the first entry it visited was not called.
C3_Witness ==
    /\ icPhase = "done"
    /\ Len(icOrder) >= 2
    /\ ~icGroup.ExperimentalAnalysis[icOrder[1]].Called
    /\ icOut = TRUE

\* C22: a group with an ID that has no entry in its analysis map is reported
\* as called, even if every entry the map has is not called.
C22_MissingEntryIsCalled ==
    (icPhase = "done"
        /\ \E id \in Range(icGroup.IDs) : id \notin DOMAIN icGroup.ExperimentalAnalysis)
        => icOut = TRUE

\* What IsCalled does with the IDs of the group: nothing. A group whose map
\* has entries, none of them called, is reported as not called, whether or
\* not the entries cover its IDs.
IsCalledIgnoresIDs ==
    (icPhase = "done"
        /\ DOMAIN icGroup.ExperimentalAnalysis # {}
        /\ \A id \in DOMAIN icGroup.ExperimentalAnalysis :
              ~icGroup.ExperimentalAnalysis[id].Called)
        => icOut = FALSE

---------------------------------------------------------------------------
(* Properties of MaxSeverity                                               *)

\* The severity entries of the records of pkg whose ID is in group.IDs.
GroupSeverities(group, pkg) ==
    UNION {Range(pkg.Vulnerabilities[k].Severity) :
             k \in {n \in 1..Len(pkg.Vulnerabilities) :
                      Contains(group.IDs, pkg.Vulnerabilities[n].ID)}}

\* The base scores of the entries whose vector decodes.
GroupScores(group, pkg) ==
    {BaseScore(e) : e \in {x \in GroupSeverities(group, pkg) : Decodes(x)}}

MaxOf(S) == CHOOSE m \in S : \A x \in S : x <= m

\* C4: MaxSeverity is the maximum of the decoded base scores of the group's
\* severity entries, entries that fail to decode being skipped: a non-empty
\* numeric string whenever at least one vector decodes, the empty string
\* when the group's vulnerabilities carry no severity entries.
C4_MaxSeverityIsMaximum ==
    msPhase = "done" =>
        /\ GroupScores(msGroup, msPkg) # {} =>
              /\ msOut = FormatFloat(MaxOf(GroupScores(msGroup, msPkg)))
              /\ msOut # ""
        /\ GroupSeverities(msGroup, msPkg) = {} => msOut = ""

\* C5: MaxSeverity returns the empty value only if no severity entry of the
\* group decoded; entries that decode to a maximum of zero give a numeric
\* zero.
C5_ZeroIsNotUnscored ==
    msPhase = "done" =>
        /\ msOut = "" => GroupScores(msGroup, msPkg) = {}
        /\ (GroupScores(msGroup, msPkg) # {} /\ MaxOf(GroupScores(msGroup, msPkg)) = 0)
              => msOut = "0"

\* What MaxSeverity does return: the maximum when it is positive, and the
\* empty string when no entry decodes or every decoded score is zero.
MaxSeverityPositiveOrEmpty ==
    msPhase = "done" =>
        LET scores == GroupScores(msGroup, msPkg)
        IN  msOut = IF scores # {} /\ MaxOf(scores) > 0
                    THEN FormatFloat(MaxOf(scores)) ELSE ""

---------------------------------------------------------------------------
(* Properties of FixedVersions                                             *)

\* The fix versions of an affected entry, over all its ranges, in order.
RECURSIVE FixesOfRanges(_)
FixesOfRanges(ranges) ==
    IF ranges = <<>> THEN <<>>
    ELSE SelectSeq([n \in 1..Len(Head(ranges).Events) |-> Head(ranges).Events[n].Fixed],
                   LAMBDA f : f # "") \o FixesOfRanges(Tail(ranges))

\* The map key of an affected entry: its package with the URL cleared.
KeyOf(a) == [a.Package EXCEPT !.Purl = ""]

\* The key of an entry with its ecosystem cut before the first colon.
BaseKeyOf(a) ==
    [KeyOf(a) EXCEPT !.Ecosystem = IF Len(@) > 1 THEN <<@[1]>> ELSE @]

GoGomodKey == [Ecosystem |-> <<"Go", "gomod">>, Name |-> "stdlib", Purl |-> ""]

GoKey == [Ecosystem |-> <<"Go">>, Name |-> "stdlib", Purl |-> ""]

\* The advisory has one affected entry, in ecosystem "Go:gomod", with exactly
\* one fix event, "1.2.0".
OneGoGomodFix ==
    /\ Len(fvAffected) = 1
    /\ fvAffected[1].Package.Ecosystem = <<"Go", "gomod">>
    /\ FixesOfRanges(fvAffected[1].Ranges) = <<"1.2.0">>

\* C6 as stated: for one "Go:gomod" entry with one fix event "1.2.0", the keys
\* "Go:gomod" and "Go" both map to a list that contains "1.2.0" twice.
C6_BothKeysHoldFixTwice ==
    (fvPhase = "done" /\ OneGoGomodFix) =>
        /\ GoGomodKey \in DOMAIN fvOut /\ Count(fvOut[GoGomodKey], "1.2.0") = 2
        /\ GoKey \in DOMAIN fvOut /\ Count(fvOut[GoKey], "1.2.0") = 2

\* C6 as amended: for one "Go:gomod" entry with one fix event "1.2.0", the map
\* has exactly the keys "Go:gomod" and "Go", and each maps to the list
\* ["1.2.0"], which contains the version once.
C6_BothKeysHoldFixOnce ==
    (fvPhase = "done" /\ OneGoGomodFix) =>
        /\ DOMAIN fvOut = {GoGomodKey, GoKey}
        /\ fvOut[GoGomodKey] = <<"1.2.0">>
        /\ fvOut[GoKey] = <<"1.2.0">>

\* FixedVersions ran on such an advisory, whose package carries a URL and
\* whose range also holds an introduced event.
C6_Witness ==
    /\ fvPhase = "done"
    /\ OneGoGomodFix
    /\ fvAffected[1].Package.Purl # ""
    /\ \E r \in 1..Len(fvAffected[1].Ranges) : Len(fvAffected[1].Ranges[r].Events) = 2

\* No entry with the key of a has a fix event.
PackageHasNoFix(a) ==
    \A n \in 1..Len(fvAffected) :
        KeyOf(fvAffected[n]) = KeyOf(a) => FixesOfRanges(fvAffected[n].Ranges) = <<>>

\* No fix event is filed under the key of a: none of an entry with that key,
\* none of a colon-qualified entry whose truncated key it is.
KeyReceivesNoFix(a) ==
    \A n \in 1..Len(fvAffected) :
        (KeyOf(fvAffected[n]) = KeyOf(a) \/ BaseKeyOf(fvAffected[n]) = KeyOf(a))
            => FixesOfRanges(fvAffected[n].Ranges) = <<>>

C20_EveryFixUnderBothKeys ==
    fvPhase = "done" =>
        \A n \in 1..Len(fvAffected) :
            Len(fvAffected[n].Package.Ecosystem) > 1 =>
                LET fixes == FixesOfRanges(fvAffected[n].Ranges)
                IN  \A k \in 1..Len(fixes) :
                        /\ KeyOf(fvAffected[n]) \in DOMAIN fvOut
                        /\ Count(fvOut[KeyOf(fvAffected[n])], fixes[k]) >= 1
                        /\ BaseKeyOf(fvAffected[n]) \in DOMAIN fvOut
                        /\ Count(fvOut[BaseKeyOf(fvAffected[n])], fixes[k]) >= 1

\* What the code does for one "Go:gomod" entry with the fix events "1.2.0" and
\* "1.3.0": the key stays cut after the first fix event, so the original key
\* holds the first fix only and the cut key holds the later one twice.
FixedVersionsLaterFixUnderBaseOnly ==
    (/\ fvPhase = "done"
     /\ Len(fvAffected) = 1
     /\ fvAffected[1].Package.Ecosystem = <<"Go", "gomod">>
     /\ FixesOfRanges(fvAffected[1].Ranges) = <<"1.2.0", "1.3.0">>) =>
        /\ fvOut[GoGomodKey] = <<"1.2.0">>
        /\ fvOut[GoKey] = <<"1.2.0", "1.3.0", "1.3.0">>

\* Every element of s twice, consecutively.
Doubled(s) == [i \in 1..(2 * Len(s)) |-> s[(i + 1) \div 2]]

\* The fix versions of the entries with the given key, in order.
PackageFixes(key) ==
    Concat([m \in 1..Len(fvAffected) |->
              IF KeyOf(fvAffected[m]) = key THEN FixesOfRanges(fvAffected[m].Ranges)
              ELSE <<>>])

\* The list the map holds for a key, empty when the key is absent.
ListOf(key) == IF key \in DOMAIN fvOut THEN fvOut[key] ELSE <<>>

\* A colon-qualified entry with a fix event has the given key as its
\* truncated key.
SharedWithQualified(key) ==
    \E m \in 1..Len(fvAffected) :
        /\ Len(fvAffected[m].Package.Ecosystem) > 1
        /\ BaseKeyOf(fvAffected[m]) = key
        /\ FixesOfRanges(fvAffected[m].Ranges) # <<>>

\* C27 as stated: for an entry whose ecosystem has no colon, the list of the
\* key of its package (the URL cleared) is every fix version of the package
\* twice, consecutively and in order, so it is twice as long as the package
\* has fix events.
C27_EachFixTwice ==
    fvPhase = "done" =>
        \A n \in 1..Len(fvAffected) :
            Len(fvAffected[n].Package.Ecosystem) = 1 =>
                LET key == KeyOf(fvAffected[n])
                IN  /\ ListOf(key) = Doubled(PackageFixes(key))
                    /\ Len(ListOf(key)) = 2 * Len(PackageFixes(key))

\* C27 as amended: the same, for a key that no colon-qualified entry with a
\* fix event truncates to.
C27_EachFixTwiceUnlessShared ==
    fvPhase = "done" =>
        \A n \in 1..Len(fvAffected) :
            (Len(fvAffected[n].Package.Ecosystem) = 1
                /\ ~SharedWithQualified(KeyOf(fvAffected[n]))) =>
                LET key == KeyOf(fvAffected[n])
                IN  /\ ListOf(key) = Doubled(PackageFixes(key))
                    /\ Len(ListOf(key)) = 2 * Len(PackageFixes(key))

\* FixedVersions ran on an advisory with one entry, in ecosystem "Go" and with
\* a package URL, that has the fix events "1.2.0" and "1.3.0".
C27_Witness ==
    /\ fvPhase = "done"
    /\ Len(fvAffected) = 1
    /\ fvAffected[1].Package.Ecosystem = <<"Go">>
    /\ fvAffected[1].Package.Purl # ""
    /\ DOMAIN fvOut = {GoKey}
    /\ fvOut[GoKey] = <<"1.2.0", "1.2.0", "1.3.0", "1.3.0">>

---------------------------------------------------------------------------
(* Properties of MakeVersionRequests                                       *)

\* Worker i has run its function to the end.
Finished(i) == wPc[i] \in {"returning", "done"}

\* What the outcome of query i puts in a slot: nothing while the worker has
\* not finished (or never runs) and for an error other than not-found,
\* UNKNOWN for not-found and for a response without licenses, the licenses of
\* the response otherwise.
OutcomeOf(i) ==
    IF ~Finished(i) THEN <<>>
    ELSE IF wResp[i].ok
         THEN (IF wResp[i].Licenses = <<>> THEN <<"UNKNOWN">> ELSE wResp[i].Licenses)
         ELSE (IF wResp[i].code = "NotFound" THEN <<"UNKNOWN">> ELSE <<>>)

\* C8: in every interleaving, slot i of the license list holds the outcome of
\* query i and of no other: only worker i writes slot i, no slot has two
\* writers, and the slot of a nil query has none.
C8_SlotPerQuery ==
    \A i \in 1..Len(licenses) :
        /\ slotWriters[i] \subseteq {i}
        /\ queries[i].nil => (slotWriters[i] = {} /\ licenses[i] = <<>>)
        /\ licenses[i] = OutcomeOf(i)

\* A later worker has filled its slot while an earlier one still waits for
\* its response, the query between them being nil.
C8_Witness ==
    /\ Len(queries) = 3
    /\ queries[2].nil
    /\ wPc[1] = "called"
    /\ wPc[3] = "done"
    /\ slotWriters[3] = {3}
    /\ licenses[3] = <<"MIT", "Apache-2.0">>

\* Three queries: the first answered with licenses, the second nil, the
\* third answered not-found; the call has returned.
ThreeQueriesNotFound ==
    /\ mvPc = "returned"
    /\ mvRet.err.code \notin {"CertPool", "Dial"}
    /\ Len(queries) = 3
    /\ ~queries[1].nil /\ queries[2].nil /\ ~queries[3].nil
    /\ wResp[1].ok /\ wResp[1].Licenses # <<>>
    /\ wResp[3].code = "NotFound"

\* C9: such a call returns the list [<licenses of query 1>, [], ["UNKNOWN"]]
\* together with a non-nil error whose cause is the not-found status.
C9_ListWithNotFoundError ==
    ThreeQueriesNotFound =>
        /\ mvRet.licenses = List(<<wResp[1].Licenses, <<>>, <<"UNKNOWN">>>>)
        /\ mvRet.err # NoError
        /\ mvRet.err.code = "NotFound"

\* What the call does return there: the not-found error and a nil list,
\* although the slots were filled.
RequestsNotFoundDropsList ==
    ThreeQueriesNotFound =>
        /\ licenses = <<wResp[1].Licenses, <<>>, <<"UNKNOWN">>>>
        /\ mvRet.licenses = NilList
        /\ mvRet.err = Error("NotFound", 3)

\* C10: when the request of query i succeeds, slot i becomes the licenses of
\* the response, verbatim and in order, if it has one or more, and exactly
\* ["UNKNOWN"] if it has none.
C10_SuccessFillsSlot ==
    \A i \in 1..Len(queries) :
        (Finished(i) /\ wResp[i].ok) =>
            /\ Len(wResp[i].Licenses) >= 1 => licenses[i] = wResp[i].Licenses
            /\ Len(wResp[i].Licenses) = 0 => licenses[i] = <<"UNKNOWN">>

\* One worker got two licenses and another a response without licenses.
C10_Witness ==
    \E i, j \in 1..Len(queries) :
        /\ Finished(i) /\ wResp[i].ok /\ Len(wResp[i].Licenses) = 2
        /\ Finished(j) /\ wResp[j].ok /\ Len(wResp[j].Licenses) = 0
        /\ licenses[i] = <<"MIT", "Apache-2.0">>
        /\ licenses[j] = <<"UNKNOWN">>

\* The call got past its setup and has returned.
Returned == mvPc = "returned" /\ mvRet.err.code \notin {"CertPool", "Dial"}

\* C11: no request is issued for a nil query and its slot stays empty; when
\* the call returns without error, slot i of the returned list is empty
\* exactly when query i is nil.
C11_NilQuerySlotEmpty ==
    /\ \A i \in 1..Len(queries) :
          queries[i].nil =>
              /\ wPc[i] = "idle"
              /\ wResp[i] = NoResponse
              /\ i <= Len(licenses) => licenses[i] = <<>>
    /\ (Returned /\ mvRet.err = NoError) =>
          /\ ~mvRet.licenses.nil
          /\ Len(mvRet.licenses.list) = Len(queries)
          /\ \A i \in 1..Len(queries) :
                (mvRet.licenses.list[i] = <<>>) <=> queries[i].nil

\* The call has returned without error a list with an empty slot for a nil
\* query between two filled ones, one of them for a response without
\* licenses.
C11_Witness ==
    /\ Returned /\ mvRet.err = NoError
    /\ Len(queries) = 3
    /\ ~queries[1].nil /\ queries[2].nil /\ ~queries[3].nil
    /\ wResp[1].Licenses = <<>>
    /\ mvRet.licenses = List(<<(<<"UNKNOWN">>), <<>>, <<"MIT", "Apache-2.0">>>>)

\* Some worker's request failed with an error other than not-found.
SomeRequestFailed ==
    \E i \in 1..Len(queries) :
        Finished(i) /\ ~wResp[i].ok /\ wResp[i].code # "NotFound"

\* C12: when a request of the batch has failed with an error other than
\* not-found, the call returns a non-nil error and a nil list, whatever the
\* other requests returned.
C12_FailureDropsList ==
    (Returned /\ SomeRequestFailed) =>
        /\ mvRet.err # NoError
        /\ mvRet.licenses = NilList

\* The call has returned after one request failed and another filled its
\* slot.
C12_Witness ==
    /\ Returned
    /\ \E i, j \in 1..Len(queries) :
          /\ wResp[i].code = "Unavailable"
          /\ wResp[j].ok /\ licenses[j] = <<"MIT", "Apache-2.0">>
    /\ mvRet.licenses = NilList
    /\ mvRet.err.code = "Unavailable"

\* C13: the call returns only after every started worker has completed,
\* also when a worker has failed: while a worker is still running the call
\* has not returned, and a failure leaves the other workers running.
C13_ReturnsAfterAllWorkers ==
    /\ Returned => \A i \in 1..Len(queries) :
                       IF queries[i].nil THEN wPc[i] = "idle" ELSE wPc[i] = "done"
    /\ \A i \in 1..Len(queries) :
          wPc[i] \in {"spawned", "called", "returning"} => mvPc # "returned"

\* The call has returned the error of the first worker, after the last
\* worker, started later, got its response and filled its slot.
C13_Witness ==
    /\ Returned
    /\ Len(queries) = 3
    /\ mvRet.err = Error("Unavailable", 1)
    /\ wPc[3] = "done" /\ wResp[3].ok
    /\ licenses[3] = <<"MIT", "Apache-2.0">>

\* The errors other than not-found the group was handed, in order.
ObservedFailures == SelectSeq(observed, LAMBDA e : e.code # "NotFound")

\* C21: when a worker has failed with an error other than not-found, the
\* error the call returns is the first such error the group was handed, also
\* when a not-found error came before it.
C21_FirstFailureIsBatchError ==
    (Returned /\ ObservedFailures # <<>>) => mvRet.err = Head(ObservedFailures)

\* What the call returns: the first error the group was handed, of whatever
\* kind, and never a combination of several.
RequestsFirstErrorOfAnyKind ==
    (Returned /\ observed # <<>>) =>
        /\ mvRet.err = Head(observed)
        /\ \E i \in 1..Len(queries) : mvRet.err = wRet[i]

\* C26: MakeVersionRequests always eventually returns, even if the service
\* never answers some request (a deadline would fail the pending requests).
C26_EventuallyReturns == <>(mvPc = "returned")

---------------------------------------------------------------------------
(* Properties of run                                                       *)

\* run has returned.
Exited == runPc = "exited"

\* The reporter printed an error at some point of the run: every line of
\* stderr is written by r.PrintError.
PrintedAnError == stderr # <<>>

\* C16: when the scan ends with the no-packages-found error, run prints
\* "No package sources found, --help for usage information." to stderr,
\* prints no result and returns 128, not the generic 127.
C16_NoPackagesFound ==
    scanErr = NoPackagesFoundErr =>
        /\ printResults = 0
        /\ ~Contains(stdout, "result")
        /\ Exited =>
              /\ Last(stderr) = NoPackagesMessage
              /\ exitCode = NoPackagesExitCode
              /\ exitCode # GenericExitCode

\* run has returned after a scan that printed an error through the reporter
\* and then found no packages.
C16_Witness ==
    /\ Exited
    /\ scanErr = NoPackagesFoundErr
    /\ stderr = <<"scan error", NoPackagesMessage>>
    /\ exitCode = 128

\* C17: when the scan returns a ResultError, run prints the result before it
\* returns, and when that print succeeded it returns the code of the error,
\* whether or not the reporter printed errors during the scan.
C17_ResultErrorCode ==
    (runPc \in {"appReturned", "exited"} /\ scanErr.kind = "ResultError") =>
        /\ printResults = 1
        /\ appErr = scanErr <=> Contains(stdout, "result")
        /\ (Exited /\ appErr = scanErr) => exitCode = scanErr.code

\* run has returned the code of a ResultError after the reporter printed an
\* error during the scan and then the result.
C17_Witness ==
    /\ Exited
    /\ scanErr = ResultError(1)
    /\ HasPrintedError(rep)
    /\ stderr = <<"scan error">>
    /\ Last(stdout) = "result"
    /\ exitCode = 1

\* C18: when the scan returns an error that is neither a ResultError nor
\* no-packages-found, run never calls PrintResult, prints the error to stderr
\* and returns the generic code 127.
C18_OtherErrorGeneric ==
    scanErr.kind = "other" =>
        /\ printResults = 0
        /\ ~Contains(stdout, "result")
        /\ Exited =>
              /\ Last(stderr) = scanErr.msg
              /\ exitCode = GenericExitCode

\* run has returned 127 after a scan that printed its progress and failed.
C18_Witness ==
    /\ Exited
    /\ scanErr = OtherErr("could not extract")
    /\ stdout = <<"scan text">>
    /\ stderr = <<"could not extract">>
    /\ exitCode = 127

\* C19: run returns 0 exactly when app.Run returned no error and the
\* reporter printed no error during the run; when app.Run returned no error
\* but the reporter printed an error during the scan, run returns 127.
C19_ZeroIffClean ==
    Exited =>
        /\ exitCode = 0 <=> (appErr = NilErr /\ ~PrintedAnError)
        /\ (appErr = NilErr /\ PrintedAnError) => exitCode = GenericExitCode

\* run has returned 127 although the action returned nil and the result was
\* printed: the scan had printed an error.
C19_Witness ==
    /\ Exited
    /\ appErr = NilErr
    /\ scanErr = NilErr
    /\ stderr = <<"scan error">>
    /\ Last(stdout) = "result"
    /\ exitCode = 127

---------------------------------------------------------------------------
(* Properties of the tables                                                *)

\* What IsCalled() is of a group: it has no analysis, or an analysis that
\* found one of its IDs called.
GroupIsCalled(group) ==
    \/ DOMAIN group.ExperimentalAnalysis = {}
    \/ \E id \in DOMAIN group.ExperimentalAnalysis : group.ExperimentalAnalysis[id].Called

\* The positions of the divider row in the vulnerability table.
DividerRows == {d \in 1..Len(outputTable.rows) : outputTable.rows[d] = Divider}

\* C14: in the table built by tableBuilder, every row of a group whose
\* IsCalled() is true precedes the "Uncalled vulnerabilities" divider row and
\* every row of a group whose IsCalled() is false follows it; the divider row
\* is present exactly when some group of the model is uncalled.
C14_DividerSplitsRows ==
    tbPhase = "done" =>
        /\ \A n \in 1..Len(outputTable.rows) :
              n \notin DividerRows =>
                  IF GroupIsCalled(GroupAt(tbResults, outputTable.rows[n].origin))
                  THEN \A d \in DividerRows : n < d
                  ELSE DividerRows # {} /\ \A d \in DividerRows : d < n
        /\ Cardinality(DividerRows) <= 1
        /\ DividerRows # {} <=>
              \E ref \in Range(GroupRefs(tbResults)) : ~GroupIsCalled(GroupAt(tbResults, ref))

\* A table was built from two packages, the first with an uncalled group and
\* the second with a called one: the row of the second package comes first,
\* then the divider, then the row of the first package.
C14_Witness ==
    /\ tbPhase = "done"
    /\ Len(outputTable.rows) = 3
    /\ outputTable.rows[1].origin = <<1, 2, 1>>
    /\ outputTable.rows[2] = Divider
    /\ outputTable.rows[3].origin = <<1, 1, 1>>
    /\ outputTable.separators = {1, 2}

\* The (source, package, group) indices of the groups of the model.
AllRefs(results) ==
    {ref \in (1..Len(results)) \X (1..MaxTableItems) \X (1..MaxTableItems) :
        /\ ref[2] <= Len(results[ref[1]].Packages)
        /\ ref[3] <= Len(results[ref[1]].Packages[ref[2]].Groups)}

\* a comes before b by source, then by package, then by group.
RefBefore(a, b) ==
    \/ a[1] < b[1]
    \/ a[1] = b[1] /\ a[2] < b[2]
    \/ a[1] = b[1] /\ a[2] = b[2] /\ a[3] < b[3]

\* The groups the rows of the first pass (calledVulns = true) and of the
\* second pass (false) were made from: the rows before the divider, or all of
\* them when there is none, and the rows after it.
PassOrigins(calledVulns) ==
    LET rows == outputTable.rows
        d    == IF DividerRows = {} THEN Len(rows) + 1 ELSE CHOOSE x \in DividerRows : TRUE
        pass == IF calledVulns THEN SubSeq(rows, 1, d - 1) ELSE SubSeq(rows, d + 1, Len(rows))
    IN  [n \in 1..Len(pass) |-> pass[n].origin]

RenderedWith(cell) ==
    {n \in 1..Len(rendered) : rendered[n].header # <<>> /\ rendered[n].header[1] = cell}

\* The number of data rows of a rendered table: in the vulnerability table
\* the divider is not one.
DataRows(table) ==
    IF table.header # <<>> /\ table.header[1] = "OSV URL"
    THEN Len(SelectSeq(table.rows, LAMBDA r : r # Divider))
    ELSE Len(table.rows)

\* The packages of the model, as (source, package) indices.
AllPackages ==
    {ref \in (1..Len(tbResults)) \X (1..MaxPrintItems) :
        ref[2] <= Len(tbResults[ref[1]].Packages)}

\* The packages with a resolved license.
WithLicense ==
    {ref \in AllPackages : tbResults[ref[1]].Packages[ref[2]].Licenses # <<>>}

\* The packages with a license violation.
WithViolation ==
    {ref \in AllPackages : tbResults[ref[1]].Packages[ref[2]].LicenseViolations # <<>>}

\* C24: PrintTableResults never renders a table without data rows. When it
\* returns, the vulnerability table is rendered exactly when the model has a
\* group; the count table exactly when license checking is on, the
\* allow-list is empty and some package has a resolved license; the
\* violation table exactly when license checking is on, the allow-list is
\* not empty and some package has a violation, with one row per such
\* package; with license checking off there is no license table.
C24_NoTableWithoutRows ==
    /\ \A n \in 1..Len(rendered) : DataRows(rendered[n]) > 0
    /\ tbPhase = "done" =>
          /\ RenderedWith("OSV URL") # {} <=> AllRefs(tbResults) # {}
          /\ RenderedWith("License") # {} <=>
                /\ licenseConfig.Enabled
                /\ licenseConfig.Allowlist = <<>>
                /\ WithLicense # {}
          /\ RenderedWith("License Violation") # {} <=>
                /\ licenseConfig.Enabled
                /\ licenseConfig.Allowlist # <<>>
                /\ WithViolation # {}
          /\ \A n \in RenderedWith("License Violation") :
                Len(rendered[n].rows) = Cardinality(WithViolation)
          /\ ~licenseConfig.Enabled =>
                RenderedWith("License") \cup RenderedWith("License Violation") = {}
          /\ Cardinality(RenderedWith("OSV URL")) <= 1
          /\ Len(rendered) = Cardinality(RenderedWith("OSV URL")
                                \cup RenderedWith("License")
                                \cup RenderedWith("License Violation"))
          /\ Cardinality(RenderedWith("License") \cup RenderedWith("License Violation")) <= 1

\* PrintTableResults returned for a model with the allow-list MIT and two
\* packages without groups, the first with the license MIT and the second
\* with MIT and Zlib: no vulnerability table is rendered, and the violation
\* table has the one row of the second package.
C24_Witness ==
    /\ tbPhase = "done"
    /\ licenseConfig = [Enabled |-> TRUE, Allowlist |-> <<"MIT">>]
    /\ AllRefs(tbResults) = {}
    /\ WithLicense = {<<1, 1>>, <<1, 2>>}
    /\ WithViolation = {<<1, 2>>}
    /\ Len(rendered) = 1
    /\ rendered[1].rows = <<(<<"Zlib", "Go", "pkg2", "1.0.0", "/repo/go.mod">>)>>

\* C25: the call of PrintTableResults leaves the model as it was: every
\* source with its path, every package, group, vulnerability and license, in
\* their order, and the license configuration. The path made relative to the
\* working directory is in the row only.
C25_ModelUnchanged ==
    [][(tbPhase = "build" /\ tbPhase' # "build") =>
          /\ tbResults' = tbResults
          /\ licenseConfig' = licenseConfig]_vars

\* PrintTableResults returned for a source /repo/go.mod with a group: the row
\* shows the path go.mod, the model still has /repo/go.mod.
C25_Witness ==
    /\ tbPhase = "done"
    /\ RenderedWith("OSV URL") = {1}
    /\ rendered[1].rows[1].origin = <<1, 1, 1>>
    /\ rendered[1].rows[1].row[6] = "go.mod"
    /\ tbResults[1].Source.Path = AbsPath(<<"repo", "go.mod">>)

\* The licenses of the rows of the license table, in order.
RowLicenses == [i \in 1..Len(outputLicenseTable.rows) |-> outputLicenseTable.rows[i][1]]

\* The model carries MIT 5 times, UNKNOWN 5 times, Apache-2.0 3 times and no
\* other license.
ExampleCounts ==
    LicenseCounts(tbResults) =
        [l \in {"MIT", "UNKNOWN", "Apache-2.0"} |-> IF l = "Apache-2.0" THEN 3 ELSE 5]

\* C15: the rows of the license-count table are one per counted license with
\* its count, ordered by descending count, ties by ascending license string,
\* and UNKNOWN last whatever its count; the example gives MIT, Apache-2.0,
\* UNKNOWN.
C15_LicenseRowsOrdered ==
    tbPhase = "done" =>
        LET counts == LicenseCounts(tbResults)
            rows   == outputLicenseTable.rows
        IN  /\ Range(RowLicenses) = DOMAIN counts
            /\ Len(rows) = Cardinality(DOMAIN counts)
            /\ \A i \in 1..Len(rows) : rows[i][2] = counts[rows[i][1]]
            /\ \A i \in 1..Len(rows) : rows[i][1] = "UNKNOWN" => i = Len(rows)
            /\ \A i, j \in 1..Len(rows) :
                  (i < j /\ rows[j][1] # "UNKNOWN") =>
                      \/ rows[i][2] > rows[j][2]
                      \/ rows[i][2] = rows[j][2] /\ StringLess(rows[i][1], rows[j][1])
            /\ ExampleCounts => RowLicenses = <<"MIT", "Apache-2.0", "UNKNOWN">>

\* The table of the example was built, maps.Keys having listed UNKNOWN first.
C15_Witness ==
    /\ tbPhase = "done"
    /\ ExampleCounts
    /\ keysOrder[1] = "UNKNOWN"
    /\ outputLicenseTable.rows = <<(<<"MIT", 5>>), <<"Apache-2.0", 3>>, <<"UNKNOWN", 5>>>>

=============================================================================
